---- MODULE Spec2Model ----
(***************************************************************************)
(* Model of the qr-reader decode pipeline (sohey-dr/qr-reader):            *)
(*   - Result Fusion: iou / dedupe              (detector/decodeCore.ts)   *)
(*   - decodeMultiFormat pass orchestration     (detector/decodeCore.ts)   *)
(*   - the worker pool, ask(), detectInWorker   (detector/worker.ts)       *)
(*   - the worker message handler               (detector/worker_impl.ts)  *)
(*   - MyBarcodeDetector                        (detector/index.ts)        *)
(* Coordinates are integers; an IoU is kept as an exact fraction so that   *)
(* the comparison with the 0.3 threshold is the comparison the code makes. *)
(***************************************************************************)
EXTENDS Integers, Sequences, FiniteSets, TLC

\* ------------------------------------------------------------------ bounds
\* largest x / y origin of a bounding box
MaxPos == 1
\* largest width / height of a bounding box
MaxSize == 2
\* longest list handed to dedupe in FusionSpec
MaxItems == 3
\* how many of the ten symbologies requests and scenes draw from
MaxFormats == 3
\* most symbols the multi-symbology engine reads in one image
MaxSymbols == 2
\* most tiles of the tiled re-scan that report a hit
MaxTileHits == 2
\* the same three limits for the runs that check the order of the passes
StageFormats == 2
StageSymbols == 1
StageTileHits == 1
\* largest width / height of a small source handed to toImageData
MaxSource == 3
\* largest maxSide a caller supplies
MaxMaxSide == 2
\* largest number in a region of interest handed to toImageData, in halves
MaxRoi == 2
\* largest width / height of a grid handed to cropImageData
MaxGrid == 3
\* largest coordinate of a corner point an engine reports
MaxCoord == 1
\* largest number of points in an array an engine reports as a position
MaxCorners == 5
\* largest side of a small grid handed to gridScanWithJsqr
MaxDim == 64
MaxBufSide == 2
MaxSample == 1
MaxLoops == 2
MaxFlights == 2
MaxTime == 4
\* most symbologies requested in one decodeWithZxing call
MaxRequested == 2
\* number of pixels of an image handed to applyOtsu
MaxPixels == 4
\* grey level of the dark cluster and of the bright cluster
DarkLevel == 40
BrightLevel == 200
\* largest distance of a pixel from the level of its cluster
MaxNoise == 1
\* largest navigator.hardwareConcurrency of the modelled environments
MaxHW == 1
\* largest size passed explicitly to initWorkerPool
MaxPoolArg == 2
\* most MyBarcodeDetector instances constructed
MaxDetectors == 1
\* most detect() calls made
MaxCalls == 3
\* most ask() requests made
MaxAsks == 5
\* the three limits for the runs that follow one detect message to its worker
ReadyDetectors == 1
ReadyCalls == 1
ReadyAsks == 4
\* largest size passed to initWorkerPool in the runs about the size of the pool
MaxPoolSize == 5
\* the three limits of these runs
PoolDetectors == 1
PoolCalls == 1
PoolAsks == 7
\* the same three limits for the runs checked under fairness
LiveDetectors == 2
LiveCalls == 2
LiveAsks == 6

\* ------------------------------------------------------ program constants
\* iou(...) > 0.3, kept as the fraction 3/10
IoUThresholdNum == 3
IoUThresholdDen == 10
\* initWorkerPool: Math.max(1, Math.min(4, hardwareConcurrency || 2))
PoolCap == 4
DefaultConcurrency == 2
\* toImageData: opts.maxSide ?? 720
DefaultMaxSide == 720
\* gridScanWithJsqr: Math.max(32, ...), Math.max(16, ...)
MinWindow == 32
\* useBarcodeScan: opts.fps ?? 10
DefaultFps == 10
\* the time between two animation frames, in ms
FrameMs == 50
\* the grey levels of the sample pixels are the multiples of SampleStep
SampleStep == 60
MinStep == 16
\* decodeMultiFormat: { overlap: 0.5, windowRatio: 0.6 }, as fractions
OverlapNum == 1
OverlapDen == 2
WindowRatioNum == 3
WindowRatioDen == 5
\* applyOtsu: new Uint32Array(256)
Levels == 256
\* applyOtsu: d[i] >= th ? 255 : 0
White == 255

\* --------------------------------------------------------------- variables
VARIABLES
  items,      \* the list handed to dedupe
  fused,      \* dedupe(items)
  refused,    \* dedupe(dedupe(items))
  score,      \* iou of the first two boxes of items
  fpc,        \* position of the fusion run
  formats,    \* opts.formats of the decodeMultiFormat call
  scene,      \* the symbols the multi-symbology engine can read in the image
  dpc,        \* position of the decodeMultiFormat call
  results,    \* decodeMultiFormat: results
  dedupedQR,  \* decodeMultiFormat: dedupedQR
  returned,   \* the list the call resolved with
  outcome,    \* "pending", "resolved" or "rejected"
  zxThrew,    \* a decodeWithZxing call of this run has thrown
  stages,     \* the passes run so far, in order, with what each returned
  gridOut,    \* what gridScanWithJsqr returned, before the foundValues filter
  hasWorker,  \* worker.ts: 'Worker' in globalThis
  hasWindow,  \* typeof window !== 'undefined'
  hw,         \* navigator.hardwareConcurrency (0: not reported)
  pool,       \* worker.ts: pool, as the list of its workers
  rr,         \* worker.ts: rr
  asks,       \* every ask() made so far, with the state of its promise
  inbox,      \* per worker: messages posted to it and not yet taken up
  outbox,     \* per worker: responses posted and not yet delivered
  workerReady, \* per worker: worker_impl.ts ready
  inProgress, \* per worker: detect requests suspended in the handler's await
  hung,       \* per worker: its handler never returned
  detInit,    \* per constructed detector: the asks its ready promise awaits
  calls,      \* every detect() call made so far
  dispatchLog,\* the pool index and pool size of each detectInWorker dispatch
  source,     \* toImageData: src, as its kind and its size
  opts,       \* toImageData: opts (maxSide, roi)
  grid,       \* what toImageData or cropImageData returned
  located,    \* a detection on the grid and what the caller is given for it
  image,      \* applyOtsu: the R channel of img.data before the call
  binary,     \* applyOtsu: the R channel of img.data after the call
  position,   \* what the engine reported as the position of a hit
  barcode,    \* the DetectedBarcode built for that hit
  scanSrc,    \* gridScanWithJsqr: the size of src
  scanAt,     \* gridScanWithJsqr: x and y of the loops
  tiles,      \* gridScanWithJsqr: the windows cropped so far
  heap,       \* every pixel buffer allocated so far, by its identity
  given,      \* the ImageData the caller passed: its buffer and its size
  before,     \* the content of the caller's buffer when the call was made
  readable,   \* whether jsQR reads a code from the caller's grid
  entry,      \* the function that was called on it
  enhancedOut,\* the ImageData enhanceForQR returned
  bufPc,      \* where the call is
  isRunning,  \* useBarcodeScan: the state isRunning, as last rendered
  mounted,    \* whether the component using the hook is mounted
  stopAsked,  \* stop() has called setIsRunning(false), not rendered yet
  loops,      \* every run of the decode-loop effect: its locals
  flights,    \* every detection submitted by a tick, and how it settled
  updates,    \* every setLastResult / onResult / setError of a tick
  now         \* the time of the last animation frame, in ms

fusionVars == <<items, fused, refused, score, fpc>>

decodeVars ==
  <<formats, scene, dpc, results, dedupedQR, returned, outcome, zxThrew, stages, gridOut>>

hostVars == <<hasWorker, hasWindow, hw, pool, rr, asks, inbox, outbox, workerReady,
              inProgress, hung, detInit, calls, dispatchLog>>

frameVars == <<source, opts, grid, located>>

otsuVars == <<image, binary>>

geometryVars == <<position, barcode>>

tileVars == <<scanSrc, scanAt, tiles>>

bufferVars == <<heap, given, before, readable, entry, enhancedOut, bufPc>>

hookVars == <<isRunning, mounted, stopAsked, loops, flights, updates, now>>

pureVars == <<frameVars, otsuVars, geometryVars, tileVars, bufferVars, hookVars>>

vars == <<fusionVars, decodeVars, hostVars, pureVars>>

\* ------------------------------------------------------------- data model
RawValues == {"A", "B"}

BoundingBox == [x: 0..MaxPos, y: 0..MaxPos, width: 0..MaxSize, height: 0..MaxSize]

\* the fields of a DetectedBarcode that Result Fusion reads
Detection == [rawValue: RawValues, boundingBox: BoundingBox]

Max2(a, b) == IF a >= b THEN a ELSE b
Min2(a, b) == IF a <= b THEN a ELSE b

Area(b) == b.width * b.height

\* ------------------------------------------------------------------- iou
NoFraction == [num |-> 0, den |-> 0]

iouNoSubtract(a, b) ==
  LET ax2 == a.x + a.width
      ay2 == a.y + a.height
      bx2 == b.x + b.width
      by2 == b.y + b.height
      ix == Max2(0, Min2(ax2, bx2) - Max2(a.x, b.x))
      iy == Max2(0, Min2(ay2, by2) - Max2(a.y, b.y))
      inter == ix * iy
      union == a.width * a.height + b.width * b.height
  IN IF union > 0 THEN [num |-> inter, den |-> union] ELSE [num |-> 0, den |-> 1]

\* the fraction inter/union, or 0 (as 0/1) when the union is not positive
iou(a, b) ==
  LET ax2 == a.x + a.width
      ay2 == a.y + a.height
      bx2 == b.x + b.width
      by2 == b.y + b.height
      ix == Max2(0, Min2(ax2, bx2) - Max2(a.x, b.x))
      iy == Max2(0, Min2(ay2, by2) - Max2(a.y, b.y))
      inter == ix * iy
      union == a.width * a.height + b.width * b.height - inter
  IN IF union > 0 THEN [num |-> inter, den |-> union] ELSE [num |-> 0, den |-> 1]

\* f > 0.3
ExceedsThreshold(f) == f.num * IoUThresholdDen > IoUThresholdNum * f.den

\* f = n/d
FractionIs(f, n, d) == f.den > 0 /\ f.num * d = n * f.den

\* ----------------------------------------------------------------- dedupe
\* the predicate handed to out.findIndex
isDuplicate(o, it) ==
  o.rawValue = it.rawValue /\ ExceedsThreshold(iou(o.boundingBox, it.boundingBox))

\* out.findIndex(...): the first matching index (1-based), 0 for "not found"
findIndex(out, it) ==
  LET hits == {i \in 1..Len(out) : isDuplicate(out[i], it)}
  IN IF hits = {} THEN 0 ELSE CHOOSE i \in hits : \A j \in hits : i <= j

replacesNever(a, it) == FALSE

\* "if (areaB > areaA) out[dupIdx] = it"
replaces(a, it) == Area(it.boundingBox) > Area(a.boundingBox)

\* one iteration of the loop over items
dedupeStep(out, it) ==
  LET dupIdx == findIndex(out, it)
  IN IF dupIdx > 0
       THEN IF replaces(out[dupIdx], it) THEN [out EXCEPT ![dupIdx] = it] ELSE out
       ELSE Append(out, it)

RECURSIVE dedupeLoop(_, _)
dedupeLoop(out, rest) ==
  IF rest = <<>> THEN out ELSE dedupeLoop(dedupeStep(out, Head(rest)), Tail(rest))

dedupe(list) == dedupeLoop(<<>>, list)

\* ------------------------------------------------- fusion: specification
SeqsUpTo(S, n) == UNION {[1..k -> S] : k \in 0..n}

FusionIdle ==
  /\ items = <<>>
  /\ fused = <<>>
  /\ refused = <<>>
  /\ score = NoFraction
  /\ fpc = "idle"

FusionStart ==
  /\ items \in SeqsUpTo(Detection, MaxItems)
  /\ fused = <<>>
  /\ refused = <<>>
  /\ score = NoFraction
  /\ fpc = "input"

PairStart ==
  /\ items \in [1..2 -> Detection]
  /\ fused = <<>>
  /\ refused = <<>>
  /\ score = NoFraction
  /\ fpc = "input"

\* Result Fusion runs on the list
Fuse ==
  /\ fpc = "input"
  /\ fused' = dedupe(items)
  /\ fpc' = "fused"
  /\ UNCHANGED <<items, refused, score, decodeVars, hostVars, pureVars>>

\* Result Fusion runs on its own output
FuseAgain ==
  /\ fpc = "fused"
  /\ refused' = dedupe(fused)
  /\ fpc' = "refused"
  /\ UNCHANGED <<items, fused, score, decodeVars, hostVars, pureVars>>

\* iou is evaluated on the boxes of a two-element list
Score ==
  /\ fpc = "input"
  /\ Len(items) = 2
  /\ score' = iou(items[1].boundingBox, items[2].boundingBox)
  /\ fpc' = "scored"
  /\ UNCHANGED <<items, fused, refused, decodeVars, hostVars, pureVars>>

\* ------------------------------------------------- formats and mapping
\* BarcodeFormat, in the order of types.ts
Symbologies ==
  <<"qr_code", "code_128", "code_39", "ean_13", "ean_8",
    "upc_a", "upc_e", "itf", "pdf417", "data_matrix">>

SymbologySet == {Symbologies[i] : i \in 1..Len(Symbologies)}

mapToZxingFormat(f) ==
  CASE f = "qr_code" -> "QRCode"
    [] f = "code_128" -> "Code128"
    [] f = "code_39" -> "Code39"
    [] f = "ean_13" -> "EAN-13"
    [] f = "ean_8" -> "EAN-8"
    [] f = "upc_a" -> "UPC-A"
    [] f = "upc_e" -> "UPC-E"
    [] f = "itf" -> "ITF"
    [] f = "pdf417" -> "PDF417"
    [] f = "data_matrix" -> "DataMatrix"
    [] OTHER -> "null"

mapFromZxingFormatDefault(s) == "qr_code"

\* mapFromZxingFormat(s)
mapFromZxingFormat(s) ==
  CASE s = "QRCode" -> "qr_code"
    [] s = "Code128" -> "code_128"
    [] s = "Code39" -> "code_39"
    [] s = "EAN-13" -> "ean_13"
    [] s = "EAN-8" -> "ean_8"
    [] s = "UPC-A" -> "upc_a"
    [] s = "UPC-E" -> "upc_e"
    [] s = "ITF" -> "itf"
    [] s = "PDF417" -> "pdf417"
    [] s = "DataMatrix" -> "data_matrix"
    [] OTHER -> "qr_code"

\* the first n symbologies of types.ts
FormatsUpTo(n) == {Symbologies[i] : i \in 1..Min2(n, Len(Symbologies))}

\* the symbologies requests and scenes are drawn from
UsedSymbologies == FormatsUpTo(MaxFormats)

\* how much a decodeMultiFormat run is given: requestable symbologies,
\* symbols in the image, tiles with a hit
DecodeLimits == [formats |-> MaxFormats, symbols |-> MaxSymbols, tileHits |-> MaxTileHits]

StageLimits == [formats |-> StageFormats, symbols |-> StageSymbols, tileHits |-> StageTileHits]

\* ------------------------------------------------------------ the engines
Null == [null |-> TRUE]

\* the all-zero box cpsToBBox gives a hit without geometry
ZeroBox == [x |-> 0, y |-> 0, width |-> 0, height |-> 0]

\* boxes of located symbols, the envelope of four distinct corners: squares
\* side by side that overlap, and one further right that overlaps none
LocatedBoxes ==
  {[x |-> px, y |-> 0, width |-> MaxSize, height |-> MaxSize] :
     px \in (0..MaxPos) \cup {MaxPos + MaxSize}}

\* tryJsqr: null, or one qr_code detection built by mkResult
JsqrHits == [rawValue: RawValues, format: {"qr_code"}, boundingBox: LocatedBoxes]

JsqrOutcomes == {Null} \cup JsqrHits

\* what readBarcodes reports for one symbol: text, engine format name and
\* the box of its position ("" is an empty text, ZeroBox a missing position)
EngineHitsOf(n) ==
  [text: RawValues \cup {""},
   format: {mapToZxingFormat(f) : f \in FormatsUpTo(n)},
   boundingBox: {b \in LocatedBoxes : b.x = 0} \cup {ZeroBox}]

EngineHits == EngineHitsOf(MaxFormats)

SeqToSet(q) == {q[i] : i \in 1..Len(q)}

RECURSIVE SelectSeq2(_, _)
\* Array.prototype.filter with a set of accepted elements decided by field f
SelectSeq2(q, keep) ==
  IF q = <<>> THEN <<>>
  ELSE IF Head(q) \in keep THEN <<Head(q)>> \o SelectSeq2(Tail(q), keep)
  ELSE SelectSeq2(Tail(q), keep)

\* readBarcodes(input, options): every symbol of the scene when no formats
\* option is set, otherwise the symbols of the requested engine formats
readBarcodes(sc, zxFormats) ==
  IF zxFormats = {} THEN sc
  ELSE SelectSeq2(sc, {h \in SeqToSet(sc) : h.format \in zxFormats})

RECURSIVE zxingOut(_)
\* the loop of decodeWithZxing over the engine's hits
zxingOut(res) ==
  IF res = <<>> THEN <<>>
  ELSE LET r == Head(res)
       IN IF r.text = "" THEN zxingOut(Tail(res))
          ELSE <<[rawValue |-> r.text,
                  format |-> mapFromZxingFormat(r.format),
                  boundingBox |-> r.boundingBox]>> \o zxingOut(Tail(res))

\* decodeWithZxing(input, formats) when the engine loads and does not throw
decodeWithZxing(sc, fs) ==
  LET zxFormats == {mapToZxingFormat(f) : f \in fs} \ {"null"}
  IN zxingOut(readBarcodes(sc, zxFormats))

RECURSIVE gridSeen(_, _, _)
\* gridScanWithJsqr over the tile hits in scan order: first hit per rawValue
gridSeen(out, seen, hits) ==
  IF hits = <<>> THEN out
  ELSE LET mapped == Head(hits)
       IN IF mapped.rawValue \in seen
            THEN gridSeen(out, seen, Tail(hits))
            ELSE gridSeen(Append(out, mapped), seen \cup {mapped.rawValue}, Tail(hits))

gridScanWithJsqr(hits) == gridSeen(<<>>, {}, hits)

\* .filter((x) => !foundValues.has(x.rawValue))
notFound(extra, foundValues) ==
  SelectSeq2(extra, {x \in SeqToSet(extra) : x.rawValue \notin foundValues})

\* --------------------------------------------- decodeMultiFormat: actions
DecodeIdle ==
  /\ formats = {}
  /\ scene = <<>>
  /\ dpc = "idle"
  /\ results = <<>>
  /\ dedupedQR = <<>>
  /\ returned = <<>>
  /\ outcome = "pending"
  /\ zxThrew = FALSE
  /\ stages = <<>>
  /\ gridOut = <<>>

\* a call decodeMultiFormat(imageData, opts) within the limits lim
DecodeStartWith(lim) ==
  /\ formats \in SUBSET FormatsUpTo(lim.formats)
  /\ scene \in SeqsUpTo(EngineHitsOf(lim.formats), lim.symbols)
  /\ dpc = "start"
  /\ results = <<>>
  /\ dedupedQR = <<>>
  /\ returned = <<>>
  /\ outcome = "pending"
  /\ zxThrew = FALSE
  /\ stages = <<>>
  /\ gridOut = <<>>

DecodeStart == DecodeStartWith(DecodeLimits)

StageStart == DecodeStartWith(StageLimits)

\* an entry of the log of passes: the pass ran and returned hits detections
ran(pass, hits) == [pass |-> pass, hits |-> hits, threw |-> FALSE]

\* an entry of the log of passes: the pass threw
failed(pass) == [pass |-> pass, hits |-> 0, threw |-> TRUE]

enhanceAlways(r) == TRUE

\* "if (r) { results.push(r) } else { ... enhanced ... }"
enhanceNeeded(r) == r = Null

wantQR == formats = {} \/ "qr_code" \in formats

otherFormats == formats \ {"qr_code"}

\* Pass 1: full-frame tryJsqr
FullFrame ==
  /\ dpc = "start"
  /\ wantQR
  /\ \E r \in JsqrOutcomes :
       /\ results' = IF r # Null THEN <<r>> ELSE <<>>
       /\ dpc' = IF enhanceNeeded(r) THEN "enhance" ELSE "grid"
       /\ stages' = Append(stages, ran("full", IF r # Null THEN 1 ELSE 0))
  /\ UNCHANGED <<formats, scene, dedupedQR, returned, outcome, zxThrew, gridOut,
                 fusionVars, hostVars, pureVars>>

\* the enhanced attempt, taken only when the full frame gave nothing
Enhanced ==
  /\ dpc = "enhance"
  /\ \E r2 \in JsqrOutcomes :
       /\ results' = IF r2 # Null THEN Append(results, r2) ELSE results
       /\ stages' = Append(stages, ran("enhanced", IF r2 # Null THEN 1 ELSE 0))
  /\ dpc' = "grid"
  /\ UNCHANGED <<formats, scene, dedupedQR, returned, outcome, zxThrew, gridOut,
                 fusionVars, hostVars, pureVars>>

\* Pass 2: the tiled re-scan, then dedupe of the jsQR results
GridScan(maxHits) ==
  /\ dpc = "grid"
  /\ \E hits \in SeqsUpTo(JsqrHits, maxHits) :
       LET foundValues == {x.rawValue : x \in SeqToSet(results)}
           out == gridScanWithJsqr(hits)
           extra == notFound(out, foundValues)
       IN /\ gridOut' = out
          /\ results' = results \o extra
          /\ dedupedQR' = dedupe(results \o extra)
          /\ stages' = stages \o <<ran("grid", Len(extra)),
                                   ran("fusion", Len(dedupe(results \o extra)))>>
  /\ dpc' = "zxingQR"
  /\ UNCHANGED <<formats, scene, returned, outcome, zxThrew, fusionVars, hostVars, pureVars>>

\* the value of dedupedQR after the try/catch around the QR engine pass
afterZxingQR(threw) ==
  LET zxingQR == decodeWithZxing(scene, {"qr_code"})
  IN IF threw \/ zxingQR = <<>> THEN dedupedQR ELSE dedupe(dedupedQR \o zxingQR)

\* the multi-symbology engine run for qr_code, inside try/catch; returns
\* here when no other format is requested
ZxingQR ==
  /\ dpc = "zxingQR"
  /\ \E threw \in BOOLEAN :
       /\ dedupedQR' = afterZxingQR(threw)
       /\ zxThrew' = (zxThrew \/ threw)
       /\ IF otherFormats = {}
            THEN /\ dpc' = "done"
                 /\ outcome' = "resolved"
                 /\ returned' = afterZxingQR(threw)
            ELSE /\ dpc' = "zxingOther"
                 /\ UNCHANGED <<outcome, returned>>
       /\ LET zxingQR == decodeWithZxing(scene, {"qr_code"})
          IN stages' = IF threw THEN Append(stages, failed("zxingQR"))
                       ELSE IF zxingQR = <<>> THEN Append(stages, ran("zxingQR", 0))
                       ELSE stages \o <<ran("zxingQR", Len(zxingQR)),
                                        ran("fusion", Len(afterZxingQR(threw)))>>
  /\ UNCHANGED <<formats, scene, results, gridOut, fusionVars, hostVars, pureVars>>

\* the engine run for the other requested formats (not inside try/catch)
ZxingOther ==
  /\ dpc = "zxingOther"
  /\ \E threw \in BOOLEAN :
       /\ zxThrew' = (zxThrew \/ threw)
       /\ LET zxingRest == decodeWithZxing(scene, otherFormats)
          IN IF threw
               THEN /\ outcome' = "rejected"
                    /\ stages' = Append(stages, failed("zxingOther"))
                    /\ UNCHANGED returned
               ELSE /\ outcome' = "resolved"
                    /\ returned' = dedupe(dedupedQR \o zxingRest)
                    /\ stages' = stages \o <<ran("zxingOther", Len(zxingRest)),
                                             ran("fusion", Len(dedupe(dedupedQR \o zxingRest)))>>
  /\ dpc' = "done"
  /\ UNCHANGED <<formats, scene, results, dedupedQR, gridOut, fusionVars, hostVars, pureVars>>

\* "Non-QR only": the engine alone (not inside try/catch)
ZxingOnly ==
  /\ dpc = "start"
  /\ ~wantQR
  /\ \E threw \in BOOLEAN :
       /\ zxThrew' = threw
       /\ IF threw
            THEN /\ outcome' = "rejected"
                 /\ stages' = Append(stages, failed("zxingOnly"))
                 /\ UNCHANGED returned
            ELSE /\ outcome' = "resolved"
                 /\ returned' = decodeWithZxing(scene, formats)
                 /\ stages' = Append(stages, ran("zxingOnly", Len(decodeWithZxing(scene, formats))))
  /\ dpc' = "done"
  /\ UNCHANGED <<formats, scene, results, dedupedQR, gridOut, fusionVars, hostVars, pureVars>>

\* ------------------------------------------------ format mapping: actions
\* a call decodeWithZxing(input, formats) with up to MaxRequested symbologies
MappingStart ==
  /\ formats \in {fs \in SUBSET SymbologySet : Cardinality(fs) <= MaxRequested}
  /\ scene = <<>>
  /\ dpc = "request"
  /\ results = <<>>
  /\ dedupedQR = <<>>
  /\ returned = <<>>
  /\ outcome = "pending"
  /\ zxThrew = FALSE
  /\ stages = <<>>
  /\ gridOut = <<>>

RECURSIVE requested(_, _)
\* formats.map(mapToZxingFormat).filter(Boolean), in the order of types.ts
requested(fs, i) ==
  IF i > Len(Symbologies) THEN <<>>
  ELSE IF Symbologies[i] \in fs
    THEN <<mapToZxingFormat(Symbologies[i])>> \o requested(fs, i + 1)
  ELSE requested(fs, i + 1)

\* readBarcodes is called with options.formats = zxFormats and the image
\* holds one symbol of every requested format: the engine reports each under
\* its own name
ReadBarcodes ==
  /\ dpc = "request"
  /\ LET zxFormats == requested(formats, 1)
     IN scene' = [i \in 1..Len(zxFormats) |->
                    [text |-> "A", format |-> zxFormats[i], boundingBox |-> ZeroBox]]
  /\ dpc' = "read"
  /\ UNCHANGED <<formats, results, dedupedQR, returned, outcome, zxThrew, stages, gridOut,
                 fusionVars, hostVars, pureVars>>

\* the loop of decodeWithZxing builds one DetectedBarcode per hit
Collect ==
  /\ dpc = "read"
  /\ results' = zxingOut(scene)
  /\ dpc' = "collected"
  /\ UNCHANGED <<formats, scene, dedupedQR, returned, outcome, zxThrew, stages, gridOut,
                 fusionVars, hostVars, pureVars>>

\* ------------------------------------------------ execution host: state
defaultSize(h) ==
  Max2(1, Min2(PoolCap, IF h = 0 THEN DefaultConcurrency ELSE h))

\* the workers any run can create
WorkerIds == 1..Max2(defaultSize(Max2(MaxHW, DefaultConcurrency)), MaxPoolArg)

\* how far a run goes: detectors constructed, detect() calls and ask() requests
Limits == [detectors |-> MaxDetectors, calls |-> MaxCalls, asks |-> MaxAsks]

LiveLimits == [detectors |-> LiveDetectors, calls |-> LiveCalls, asks |-> LiveAsks]

\* the runs that follow one detect message to its worker
ReadyLimits == [detectors |-> ReadyDetectors, calls |-> ReadyCalls, asks |-> ReadyAsks]

\* the runs that pass sizes up to MaxPoolSize to initWorkerPool
PoolLimits == [detectors |-> PoolDetectors, calls |-> PoolCalls, asks |-> PoolAsks]

PoolWorkerIds == 1..Max2(MaxPoolSize, defaultSize(Max2(MaxHW, DefaultConcurrency)))

\* the detect() calls any run can make
CallIds == 1..Max2(MaxCalls, LiveCalls)

\* Math.random().toString(36).slice(2): an identifier not used before
NewId(p) == p

\* ask(): the identifier of the p-th request
askId(p) == NewId(p)

HostIdle ==
  /\ hasWorker = FALSE
  /\ hasWindow = FALSE
  /\ hw = 0
  /\ pool = <<>>
  /\ rr = 0
  /\ asks = <<>>
  /\ inbox = [w \in WorkerIds |-> <<>>]
  /\ outbox = [w \in WorkerIds |-> <<>>]
  /\ workerReady = [w \in WorkerIds |-> FALSE]
  /\ inProgress = [w \in WorkerIds |-> {}]
  /\ hung = [w \in WorkerIds |-> FALSE]
  /\ detInit = <<>>
  /\ calls = <<>>
  /\ dispatchLog = <<>>

\* module state after load, in every environment; ids are the workers the
\* run can create
HostStartWith(ids) ==
  /\ hasWorker \in BOOLEAN
  /\ hasWindow \in BOOLEAN
  /\ hw \in 0..MaxHW
  /\ pool = <<>>
  /\ rr = 0
  /\ asks = <<>>
  /\ inbox = [w \in ids |-> <<>>]
  /\ outbox = [w \in ids |-> <<>>]
  /\ workerReady = [w \in ids |-> FALSE]
  /\ inProgress = [w \in ids |-> {}]
  /\ hung = [w \in ids |-> FALSE]
  /\ detInit = <<>>
  /\ calls = <<>>
  /\ dispatchLog = <<>>

HostStart == HostStartWith(WorkerIds)

\* ensurePool(size): the pool afterwards; new workers take the next indices
ensurePool(size) ==
  IF ~hasWorker THEN pool
  ELSE IF Len(pool) >= size THEN pool
  ELSE [i \in 1..size |-> i]

\* the promise of the p-th ask(), listening on worker w
newAsk(p, w, type) ==
  [id |-> askId(p), w |-> w, type |-> type, state |-> "pending", listening |-> TRUE,
   answers |-> 0, delivered |-> FALSE, settledBy |-> <<>>]

\* w.postMessage({ ...msg, id }); "for" records the request it belongs to
message(p, type) == [type |-> type, id |-> askId(p), for |-> p]

\* detect() calls that have not reached detectInWorker yet
Waiting == {c \in 1..Len(calls) : calls[c].pc = "awaitReady"}

\* pool.map((rec) => ask(rec.w, { type: 'init' })) on the pool pl
initAsks(pl) ==
  /\ asks' = asks \o [i \in 1..Len(pl) |-> newAsk(Len(asks) + i, pl[i], "init")]
  /\ inbox' = [w \in DOMAIN inbox |->
                 IF \E i \in 1..Len(pl) : pl[i] = w
                   THEN Append(inbox[w],
                               message(Len(asks) + (CHOOSE i \in 1..Len(pl) : pl[i] = w), "init"))
                   ELSE inbox[w]]

\* the promise `ready` of detector d is resolved
readyResolved(d) == \A p \in detInit[d] : asks[p].state = "resolved"

\* -------------------------------------------- execution host: main thread
\* new MyBarcodeDetector(opts): this.ready = initWorkerPool()
Construct(lim) ==
  /\ Len(detInit) < lim.detectors
  /\ IF hasWorker
       THEN LET pl == ensurePool(defaultSize(hw))
            IN /\ Len(asks) + Len(pl) + Cardinality(Waiting) <= lim.asks
               /\ pool' = pl
               /\ initAsks(pl)
               /\ detInit' = Append(detInit, {Len(asks) + i : i \in 1..Len(pl)})
       ELSE /\ detInit' = Append(detInit, {})
            /\ UNCHANGED <<pool, asks, inbox>>
  /\ UNCHANGED <<hasWorker, hasWindow, hw, rr, outbox, workerReady, inProgress, hung,
                 calls, dispatchLog, fusionVars, decodeVars, pureVars>>

\* initWorkerPool(size) with an explicit size
InitWorkerPool(size, lim) ==
  /\ hasWorker
  /\ LET pl == ensurePool(size)
     IN /\ Len(asks) + Len(pl) + Cardinality(Waiting) <= lim.asks
        /\ pool' = pl
        /\ initAsks(pl)
  /\ UNCHANGED <<hasWorker, hasWindow, hw, rr, outbox, workerReady, inProgress, hung,
                 detInit, calls, dispatchLog, fusionVars, decodeVars, pureVars>>

\* detector.detect(source) is called: it first awaits this.ready
Detect(d, lim) ==
  /\ d \in 1..Len(detInit)
  /\ Len(calls) < lim.calls
  /\ Len(asks) + Cardinality(Waiting) + 1 <= lim.asks
  /\ calls' = Append(calls, [det |-> d, pc |-> "awaitReady", ask |-> 0, via |-> "none"])
  /\ UNCHANGED <<hasWorker, hasWindow, hw, pool, rr, asks, inbox, outbox, workerReady,
                 inProgress, hung, detInit, dispatchLog, fusionVars, decodeVars, pureVars>>

postMessageFirst(q, msg) == <<msg>> \o q

\* w.postMessage(msg): the message joins the queue of the worker at its end
postMessage(q, msg) == Append(q, msg)

nextIndexStuck(r, n) == r % n

\* (rr + 1) % pool.length
nextIndex(r, n) == (r + 1) % n

\* detect() resumes after `await this.ready` and reaches detectInWorker
Dispatch(c) ==
  /\ c \in Waiting
  /\ readyResolved(calls[c].det)
  /\ IF ~hasWorker
       THEN /\ \/ /\ ~hasWindow
                  /\ calls' = [calls EXCEPT ![c].pc = "resolved", ![c].via = "empty"]
               \/ /\ hasWindow
                  /\ \E ok \in BOOLEAN :
                       calls' = [calls EXCEPT ![c].pc = IF ok THEN "resolved" ELSE "rejected",
                                              ![c].via = "main"]
            /\ UNCHANGED <<pool, rr, asks, inbox, dispatchLog>>
       ELSE LET pl == IF Len(pool) = 0 THEN ensurePool(1) ELSE pool
                idx == nextIndex(rr, Len(pl))
                rec == pl[idx + 1]
                p == Len(asks) + 1
            IN /\ pool' = pl
               /\ rr' = idx
               /\ asks' = Append(asks, newAsk(p, rec, "detect"))
               /\ inbox' = [inbox EXCEPT ![rec] = postMessage(@, message(p, "detect"))]
               /\ calls' = [calls EXCEPT ![c].pc = "dispatched", ![c].ask = p,
                                         ![c].via = "worker"]
               /\ dispatchLog' = Append(dispatchLog, [index |-> idx, n |-> Len(pl)])
  /\ UNCHANGED <<hasWorker, hasWindow, hw, outbox, workerReady, inProgress, hung,
                 detInit, fusionVars, decodeVars, pureVars>>

onMessageAny(a, w, d) == a.w = w /\ a.listening

\* ask(): the listener of request a runs on response d of worker w and
\* gets past "if (!d || d.id !== id) return"
onMessage(a, w, d) == a.w = w /\ a.listening /\ a.id = d.id

\* a response of worker w reaches the main thread: every listener on w runs
Deliver(w) ==
  /\ outbox[w] # <<>>
  /\ LET d == Head(outbox[w])
     IN asks' = [p \in 1..Len(asks) |->
                   LET a == [asks[p] EXCEPT !.delivered = (@ \/ d.for = p)]
                   IN IF onMessage(a, w, d)
                        THEN [a EXCEPT !.state = IF d.ok THEN "resolved" ELSE "rejected",
                                       !.listening = FALSE,
                                       !.settledBy = Append(@, d.for)]
                        ELSE a]
  /\ outbox' = [outbox EXCEPT ![w] = Tail(@)]
  /\ UNCHANGED <<hasWorker, hasWindow, hw, pool, rr, inbox, workerReady, inProgress, hung,
                 detInit, calls, dispatchLog, fusionVars, decodeVars, pureVars>>

\* ------------------------------------------------ execution host: worker
\* (self as any).postMessage({ id, ok, ... }) for message m
postResponse(w, m, ok) ==
  /\ outbox' = [outbox EXCEPT ![w] = Append(@, [id |-> m.id, ok |-> ok, for |-> m.for])]
  /\ asks' = [asks EXCEPT ![m.for].answers = @ + 1]

\* self.onmessage takes the next message: init is answered at once; detect
\* is refused when not ready, otherwise runs up to `await decodeMultiFormat`
WorkerReceive(w) ==
  /\ ~hung[w]
  /\ inbox[w] # <<>>
  /\ LET m == Head(inbox[w])
     IN /\ inbox' = [inbox EXCEPT ![w] = Tail(@)]
        /\ IF m.type = "init"
             THEN /\ workerReady' = [workerReady EXCEPT ![w] = TRUE]
                  /\ postResponse(w, m, TRUE)
                  /\ UNCHANGED inProgress
             ELSE IF ~workerReady[w]
               THEN /\ postResponse(w, m, FALSE)
                    /\ UNCHANGED <<workerReady, inProgress>>
               ELSE /\ inProgress' = [inProgress EXCEPT ![w] = @ \cup {m}]
                    /\ UNCHANGED <<workerReady, outbox, asks>>
  /\ UNCHANGED <<hasWorker, hasWindow, hw, pool, rr, hung, detInit, calls, dispatchLog,
                 fusionVars, decodeVars, pureVars>>

finishRequestTwice(w, m) ==
  /\ asks[m.for].answers < 2
  /\ UNCHANGED inProgress
  /\ \E ok \in BOOLEAN : postResponse(w, m, ok)

\* the handler of detect message m resumes after its await and posts the
\* result, or the error from its catch block
finishRequest(w, m) ==
  /\ inProgress' = [inProgress EXCEPT ![w] = @ \ {m}]
  /\ \E ok \in BOOLEAN : postResponse(w, m, ok)

\* decodeMultiFormat settles for one of the suspended detect requests
WorkerFinish(w) ==
  /\ ~hung[w]
  /\ \E m \in inProgress[w] : finishRequest(w, m)
  /\ UNCHANGED <<hasWorker, hasWindow, hw, pool, rr, inbox, workerReady, hung,
                 detInit, calls, dispatchLog, fusionVars, decodeVars, pureVars>>

\* the decode of a detect message never returns: the worker takes up no
\* further message and posts nothing more
WorkerHang(w) ==
  /\ ~hung[w]
  /\ inbox[w] # <<>>
  /\ Head(inbox[w]).type = "detect"
  /\ workerReady[w]
  /\ inbox' = [inbox EXCEPT ![w] = Tail(@)]
  /\ hung' = [hung EXCEPT ![w] = TRUE]
  /\ UNCHANGED <<hasWorker, hasWindow, hw, pool, rr, asks, outbox, workerReady, inProgress,
                 detInit, calls, dispatchLog, fusionVars, decodeVars, pureVars>>

\* ------------------------------------------------ frame normalizer: data
\* the kinds of source toImageData accepts
SourceKinds == {"video", "image", "canvas", "bitmap", "blob", "imageData"}

\* widths and heights of sources: small ones and one above the default maxSide
SourceSides == (1..MaxSource) \cup {2 * DefaultMaxSide}

\* opts.maxSide: left out (<<>>), or a number the caller supplies (<<n>>)
MaxSideOptions == {<<>>} \cup {<<n>> : n \in 0..MaxMaxSide}

\* a region of interest; each number is given in halves (3 stands for 1.5)
Rois(lo, hi) == [x: lo..hi, y: lo..hi, width: lo..hi, height: lo..hi, normalized: BOOLEAN]

One == [num |-> 1, den |-> 1]

\* Math.floor of a number given in halves
floorHalves(n) == n \div 2

\* Math.round of a number given in halves (a tie goes up)
roundHalves(n) == (n + 1) \div 2

clampNoMin(room, v) == Max2(1, v)

\* Math.max(1, Math.min(room, v)): lines 112 and 113
clamp(room, v) == Max2(1, Min2(room, v))

\* Math.max(0, Math.min(last, v)): lines 110 and 111
clampOrigin(last, v) == Max2(0, Min2(last, v))

\* bytes that "dest.set(src.data.subarray(sOff, sOff + width * 4), dOff)"
\* copies for one row; subarray clips its bounds to the source buffer
rowBytes(srcLen, sOff, n) ==
  LET from == Max2(0, Min2(srcLen, sOff))
      to == Max2(0, Min2(srcLen, sOff + n))
  IN Max2(0, to - from)

\* cropImageData(src, roi): the rectangle copied, the length of the buffer
\* and whether a typed-array or ImageData call threw
cropImageData(src, roi) ==
  LET fx == IF roi.normalized THEN roundHalves(roi.x * src.width) ELSE floorHalves(roi.x)
      fy == IF roi.normalized THEN roundHalves(roi.y * src.height) ELSE floorHalves(roi.y)
      fw == IF roi.normalized THEN roundHalves(roi.width * src.width)
                              ELSE floorHalves(roi.width)
      fh == IF roi.normalized THEN roundHalves(roi.height * src.height)
                              ELSE floorHalves(roi.height)
      x == clampOrigin(src.width - 1, fx)
      y == clampOrigin(src.height - 1, fy)
      width == clamp(src.width - x, fw)
      height == clamp(src.height - y, fh)
      len == width * height * 4
      stride == src.width * 4
      start == y * stride + x * 4
      srcLen == src.width * src.height * 4
  IN [x |-> x, y |-> y, width |-> width, height |-> height, length |-> len,
      threw |-> \/ len < 0
                \/ \E row \in 0..(height - 1) :
                     row * width * 4 + rowBytes(srcLen, start + row * stride, width * 4) > len
                \/ width < 1
                \/ height < 1]

\* Math.min(1, maxSide / Math.max(width, height)), as a fraction
scaleOf(maxSide, width, height) ==
  LET m == Max2(width, height)
  IN IF maxSide >= m THEN One ELSE [num |-> maxSide, den |-> m]

\* Math.max(1, Math.round(side * scale))
target(side, scale) ==
  Max2(1, (2 * side * scale.num + scale.den) \div (2 * scale.den))

\* drawImage to a w x h canvas, getImageData, then the crop if a roi was
\* handed over: the grid returned with the scale
rasterize(width, height, maxSide, roi) ==
  LET scale == scaleOf(maxSide, width, height)
      w == target(width, scale)
      h == target(height, scale)
      c == IF roi = Null
             THEN [x |-> 0, y |-> 0, width |-> w, height |-> h, length |-> w * h * 4,
                   threw |-> FALSE]
             ELSE cropImageData([width |-> w, height |-> h], roi)
  IN [width |-> c.width, height |-> c.height, x |-> c.x, y |-> c.y, length |-> c.length,
      threw |-> c.threw, scale |-> scale, frameWidth |-> w, frameHeight |-> h]

\* imageBitmapToImageData(bmp, opts)
imageBitmapToImageData(bmp, o) == rasterize(bmp.width, bmp.height, o.maxSide, o.roi)

\* opts.maxSide ?? 720
maxSideOf(o) == IF o.maxSide = <<>> THEN DefaultMaxSide ELSE o.maxSide[1]

\* toImageData(src, opts)
toImageData(src, o) ==
  LET maxSide == maxSideOf(o)
  IN IF src.kind = "imageData"
       THEN [width |-> src.width, height |-> src.height, x |-> 0, y |-> 0,
             length |-> src.width * src.height * 4, threw |-> FALSE, scale |-> One,
             frameWidth |-> src.width, frameHeight |-> src.height]
     ELSE IF src.kind \in {"blob", "bitmap"}
       THEN imageBitmapToImageData(src, [maxSide |-> maxSide, roi |-> Null])
     ELSE rasterize(src.width, src.height, maxSide, o.roi)

FrameIdle ==
  /\ source = Null
  /\ opts = Null
  /\ grid = Null
  /\ located = Null

\* a call toImageData(src, opts)
FrameStart ==
  /\ source \in [kind: SourceKinds, width: SourceSides, height: SourceSides]
  /\ opts \in [maxSide: MaxSideOptions, roi: {Null} \cup Rois(0, MaxRoi)]
  /\ grid = Null
  /\ located = Null

\* a call cropImageData(src, roi)
CropStart ==
  /\ source \in [kind: {"imageData"}, width: 1..MaxGrid, height: 1..MaxGrid]
  /\ opts \in [maxSide: {<<>>}, roi: Rois(-1, 2 * MaxGrid + 1)]
  /\ grid = Null
  /\ located = Null

\* ---------------------------------------------- frame normalizer: actions
\* toImageData returns { imageData, scale }
ToImageData ==
  /\ source # Null
  /\ grid = Null
  /\ grid' = toImageData(source, opts)
  /\ UNCHANGED <<source, opts, located, otsuVars, geometryVars, fusionVars, decodeVars,
                 hostVars, tileVars, bufferVars, hookVars>>

\* cropImageData returns the cropped ImageData
Crop ==
  /\ source # Null
  /\ grid = Null
  /\ grid' = cropImageData(source, opts.roi)
  /\ UNCHANGED <<source, opts, located, otsuVars, geometryVars, fusionVars, decodeVars,
                 hostVars, tileVars, bufferVars, hookVars>>

\* v / scale, as a fraction
divide(v, scale) == [num |-> v * scale.den, den |-> scale.num]

\* the pipeline reports a detection at pixel (gx, gy) of the grid and the
\* caller's results.map divides its coordinates by scale. The grid pixel
\* shows the pixel (gx + grid.x, gy + grid.y) of the downscaled frame.
Rescale ==
  /\ grid # Null
  /\ located = Null
  /\ \E gx \in 0..Min2(grid.width - 1, MaxPos), gy \in 0..Min2(grid.height - 1, MaxPos) :
       located' = [x |-> divide(gx, grid.scale), y |-> divide(gy, grid.scale),
                   originalX |-> divide(gx + grid.x, grid.scale),
                   originalY |-> divide(gy + grid.y, grid.scale)]
  /\ UNCHANGED <<source, opts, grid, otsuVars, geometryVars, fusionVars, decodeVars, hostVars,
                 tileVars, bufferVars, hookVars>>

\* ------------------------------------------------------ detect(): intake
\* what a source of size 0x0 can be: a video without a frame yet, an image
\* that has not loaded or is broken, a canvas without pixels, a closed bitmap
EmptyStates ==
  [video |-> {"noData"}, image |-> {"notLoaded", "broken"}, canvas |-> {"empty"},
   bitmap |-> {"closed"}]

\* the sources handed to detect(): usable ones of size 1x1 and more, a blob
\* that is not an image, and the sources whose measured size is 0x0
IntakeSources ==
  [kind: SourceKinds, width: 1..MaxSource, height: 1..MaxSource, state: {"valid"}]
    \cup [kind: {"blob"}, width: {0}, height: {0}, state: {"corrupt"}]
    \cup UNION {[kind: {k}, width: {0}, height: {0}, state: EmptyStates[k]] :
                  k \in DOMAIN EmptyStates}

\* a source that cannot be converted to a pixel grid
Unconvertible(src) == src.state # "valid"

\* createImageBitmap(blob) rejects for data that is not an image
createImageBitmap(src) == IF src.state = "corrupt" THEN "rejects" ELSE "bitmap"

\* ctx.drawImage(src, 0, 0, w, h): draws; returns without drawing for a video
\* without a frame and for an image that has not loaded; throws
\* InvalidStateError for a broken image, an empty canvas and a closed bitmap
drawImage(src) ==
  IF src.state \in {"noData", "notLoaded"} THEN "nothing"
  ELSE IF src.state \in {"broken", "empty", "closed"} THEN "throws"
  ELSE "drawn"

\* detector.detect(source) is called; this.ready is resolved
IntakeStart ==
  /\ source \in IntakeSources
  /\ opts = [maxSide |-> <<DefaultMaxSide>>, roi |-> Null]
  /\ grid = Null
  /\ located = Null
  /\ outcome = "pending"
  /\ returned = <<>>

\* "await toImageData(source, { maxSide: 720, grayscale: false })"
Acquire ==
  /\ source # Null
  /\ grid = Null
  /\ outcome = "pending"
  /\ IF \/ source.kind = "blob" /\ createImageBitmap(source) = "rejects"
        \/ source.kind # "imageData" /\ drawImage(source) = "throws"
       THEN /\ outcome' = "rejected"
            /\ UNCHANGED grid
       ELSE /\ grid' = toImageData(source, opts)
            /\ UNCHANGED outcome
  /\ UNCHANGED <<source, opts, located, returned, formats, scene, dpc, results, dedupedQR,
                 zxThrew, stages, gridOut, otsuVars, geometryVars, fusionVars, hostVars,
                 tileVars, bufferVars, hookVars>>

\* "await detectInWorker(imageData, ...)" and results.map: the call resolves
\* with the detections, none on a grid nothing was drawn on, or rejects with
\* the error of the worker
Settle ==
  /\ grid # Null
  /\ outcome = "pending"
  /\ \/ /\ outcome' = "resolved"
        /\ \E found \in SeqsUpTo(JsqrHits, 1) :
             /\ drawImage(source) = "nothing" => found = <<>>
             /\ returned' = found
     \/ /\ drawImage(source) = "drawn"
        /\ outcome' = "rejected"
        /\ UNCHANGED returned
  /\ UNCHANGED <<frameVars, formats, scene, dpc, results, dedupedQR, zxThrew, stages,
                 gridOut, otsuVars, geometryVars, fusionVars, hostVars, tileVars, bufferVars,
                 hookVars>>

\* ------------------------------------------------------ tiled re-scan
\* Math.floor(dim * cfg.windowRatio) with windowRatio 0.6 = 3/5
windowOf(dim) == Max2(MinWindow, (dim * WindowRatioNum) \div WindowRatioDen)

\* Math.floor(win * (1 - cfg.overlap)) with overlap 0.5 = 1/2
stepOf(win) == Max2(MinStep, (win * (OverlapDen - OverlapNum)) \div OverlapDen)

fitsFrom(at, win, dim) == at < dim

\* the loop conditions "y <= H - winH" and "x <= W - winW"
fits(at, win, dim) == at <= dim - win

\* crop(src, x, y, w, h): the window, the length of its buffer, whether
\* every row copy got its w * 4 bytes from the source and whether a
\* typed-array call threw
crop(src, x, y, w, h) ==
  LET len == w * h * 4
      stride == src.width * 4
      start == y * stride + x * 4
      srcLen == src.width * src.height * 4
      got(row) == rowBytes(srcLen, start + row * stride, w * 4)
  IN [x |-> x, y |-> y, width |-> w, height |-> h, length |-> len,
      complete |-> \A row \in 0..(h - 1) : got(row) = w * 4,
      threw |-> \E row \in 0..(h - 1) : row * w * 4 + got(row) > len]

\* the sides of the grids handed to gridScanWithJsqr
GridSides == (1..MaxDim) \cup {DefaultMaxSide}

TileIdle ==
  /\ scanSrc = Null
  /\ scanAt = Null
  /\ tiles = <<>>

\* gridScanWithJsqr(src, { overlap: 0.5, windowRatio: 0.6 }) enters its loops
TileStart ==
  /\ scanSrc \in [width: GridSides, height: GridSides]
  /\ scanAt = [x |-> 0, y |-> 0]
  /\ tiles = <<>>

\* one pass of the inner loop: the window at (x, y) is cropped and scanned
ScanWindow ==
  /\ scanAt # Null
  /\ LET winW == windowOf(scanSrc.width)
         winH == windowOf(scanSrc.height)
     IN /\ fits(scanAt.y, winH, scanSrc.height)
        /\ fits(scanAt.x, winW, scanSrc.width)
        /\ tiles' = Append(tiles, crop(scanSrc, scanAt.x, scanAt.y, winW, winH))
        /\ scanAt' = [scanAt EXCEPT !.x = @ + stepOf(winW)]
  /\ UNCHANGED <<scanSrc, frameVars, otsuVars, geometryVars, fusionVars, decodeVars,
                 hostVars, bufferVars, hookVars>>

\* the inner loop ends: the outer loop goes on to the next row of windows
NextRow ==
  /\ scanAt # Null
  /\ LET winW == windowOf(scanSrc.width)
         winH == windowOf(scanSrc.height)
     IN /\ fits(scanAt.y, winH, scanSrc.height)
        /\ ~fits(scanAt.x, winW, scanSrc.width)
        /\ scanAt' = [x |-> 0, y |-> scanAt.y + stepOf(winH)]
  /\ UNCHANGED <<scanSrc, tiles, frameVars, otsuVars, geometryVars, fusionVars, decodeVars,
                 hostVars, bufferVars, hookVars>>

\* the outer loop ends: gridScanWithJsqr returns
ScanReturn ==
  /\ scanAt # Null
  /\ ~fits(scanAt.y, windowOf(scanSrc.height), scanSrc.height)
  /\ scanAt' = Null
  /\ UNCHANGED <<scanSrc, tiles, frameVars, otsuVars, geometryVars, fusionVars, decodeVars,
                 hostVars, bufferVars, hookVars>>

\* ------------------------------------------------- corner points: data
Points == [x: 0..MaxCoord, y: 0..MaxCoord]

\* r.location of a jsQR hit: always the four named corners
JsqrLocations ==
  [shape: {"location"}, topLeftCorner: Points, topRightCorner: Points,
   bottomRightCorner: Points, bottomLeftCorner: Points]

\* r.position || r.cornerPoints of an engine hit: nothing, an array of points
\* of any length, or an object with some of the named corners
EnginePositions ==
  {[shape |-> "missing"]}
    \cup [shape: {"array"}, points: SeqsUpTo(Points, MaxCorners)]
    \cup [shape: {"named"}, tl: Points \cup {Null}, tr: Points \cup {Null},
          br: Points \cup {Null}, bl: Points \cup {Null}]

MinOf(S) == CHOOSE v \in S : \A u \in S : v <= u

MaxOf(S) == CHOOSE v \in S : \A u \in S : v >= u

\* the smallest box around the points
around(cps) ==
  LET xs == {cps[i].x : i \in 1..Len(cps)}
      ys == {cps[i].y : i \in 1..Len(cps)}
  IN [x |-> MinOf(xs), y |-> MinOf(ys), width |-> MaxOf(xs) - MinOf(xs),
      height |-> MaxOf(ys) - MinOf(ys)]

\* mkResult('qr_code', rawValue, cps), without the text and the format
mkResult(cps) == [cornerPoints |-> cps, boundingBox |-> around(cps)]

\* the named corners that are there, in the order tl, tr, br, bl
pushed(pos) ==
  LET one(c) == IF c = Null THEN <<>> ELSE <<c>>
  IN one(pos.tl) \o one(pos.tr) \o one(pos.br) \o one(pos.bl)

\* position.topLeft || ..., position.topRight || ..., and so on: an array
\* has none of these properties
corners(pos) ==
  IF pos.shape = "named" THEN pos ELSE [tl |-> Null, tr |-> Null, br |-> Null, bl |-> Null]

\* extractPoints(position)
extractPoints(pos) ==
  IF pos.shape = "missing" THEN <<>>
  ELSE IF pos.shape = "array" /\ Len(pos.points) > 0 THEN pos.points
  ELSE pushed(corners(pos))

\* cpsToBBox(cps)
cpsToBBox(cps) == IF Len(cps) = 0 THEN ZeroBox ELSE around(cps)

GeometryStart ==
  /\ position \in JsqrLocations \cup EnginePositions
  /\ barcode = Null

\* ---------------------------------------------- corner points: actions
\* tryJsqr on a hit of jsQR
TryJsqr ==
  /\ barcode = Null
  /\ position # Null
  /\ position.shape = "location"
  /\ barcode' = mkResult(<<position.topLeftCorner, position.topRightCorner,
                           position.bottomRightCorner, position.bottomLeftCorner>>)
  /\ UNCHANGED <<position, frameVars, otsuVars, fusionVars, decodeVars, hostVars, tileVars,
                 bufferVars, hookVars>>

\* the body of the loop of decodeWithZxing on one engine hit with a text
DecodeWithZxing ==
  /\ barcode = Null
  /\ position # Null
  /\ position.shape # "location"
  /\ LET cps == extractPoints(position)
     IN barcode' = [cornerPoints |-> cps, boundingBox |-> cpsToBBox(cps)]
  /\ UNCHANGED <<position, frameVars, otsuVars, fusionVars, decodeVars, hostVars, tileVars,
                 bufferVars, hookVars>>

\* ------------------------------------------------------ Otsu threshold
\* a pixel of a two-level image: the cluster it belongs to and its grey
\* level, the level of its cluster moved towards the other one by the noise
Pixels ==
  {[cluster |-> "dark", level |-> DarkLevel + e] : e \in 0..MaxNoise}
    \cup {[cluster |-> "bright", level |-> BrightLevel - e] : e \in 0..MaxNoise}

\* the images with both clusters in them
TwoLevelImages ==
  {d \in [1..MaxPixels -> Pixels] :
     /\ \E i \in 1..MaxPixels : d[i].cluster = "dark"
     /\ \E i \in 1..MaxPixels : d[i].cluster = "bright"}

\* hist[t] after the loop of line 90
hist(d, t) == Cardinality({i \in 1..Len(d) : d[i].level = t})

RECURSIVE weighted(_, _, _)
\* the sum of t * hist[t] over the levels lo <= t < hi: line 91
weighted(d, lo, hi) ==
  IF hi - lo = 1 THEN lo * hist(d, lo)
  ELSE LET mid == (lo + hi) \div 2
       IN weighted(d, lo, mid) + weighted(d, mid, hi)

\* one pass of the loop of lines 93 to 100, at level t; st holds sumB, wB,
\* varMax, th and whether the loop was left by "break". between =
\* wB * wF * (mB - mF)^2 is kept as the exact fraction
\* (sumB * wF - (sum - sumB) * wB)^2 / (wB * wF).
step(d, t, st) ==
  LET wB == st.wB + hist(d, t)
      wF == Len(d) - wB
      sumB == st.sumB + t * hist(d, t)
      diff == sumB * wF - (st.sum - sumB) * wB
      between == [num |-> diff * diff, den |-> wB * wF]
  IN IF st.left THEN st
     ELSE IF wB = 0 THEN st
     ELSE IF wF = 0 THEN [st EXCEPT !.wB = wB, !.left = TRUE]
     ELSE IF between.num * st.varMax.den > st.varMax.num * between.den
       THEN [st EXCEPT !.sumB = sumB, !.wB = wB, !.varMax = between, !.th = t]
     ELSE [st EXCEPT !.sumB = sumB, !.wB = wB]

RECURSIVE threshold(_, _, _, _)
\* the passes of the loop for the levels lo <= t < hi, in order, up to "break"
threshold(d, lo, hi, st) ==
  IF hi - lo = 1 THEN step(d, lo, st)
  ELSE LET mid == (lo + hi) \div 2
           first == threshold(d, lo, mid, st)
       IN IF first.left THEN first ELSE threshold(d, mid, hi, first)

\* applyOtsu(img): the level every pixel is set to
applyOtsu(d) ==
  LET st == threshold(d, 0, Levels,
                      [sum |-> weighted(d, 0, Levels), sumB |-> 0, wB |-> 0,
                       varMax |-> [num |-> 0, den |-> 1], th |-> 0, left |-> FALSE])
  IN [i \in 1..Len(d) |-> IF d[i].level >= st.th THEN White ELSE 0]

OtsuStart ==
  /\ image \in TwoLevelImages
  /\ binary = <<>>

\* enhanceForQR with threshold: 'otsu' reaches applyOtsu
ApplyOtsu ==
  /\ image # <<>>
  /\ binary = <<>>
  /\ binary' = applyOtsu(image)
  /\ UNCHANGED <<image, frameVars, geometryVars, fusionVars, decodeVars, hostVars, tileVars,
                 bufferVars, hookVars>>

\* ------------------------------------------------------- pixel buffers
\* A buffer is written here as one grey level per pixel: the pixel with
\* level v is the four bytes v, v, v, 255. Every stage below maps grey opaque
\* pixels to grey opaque pixels, so a buffer stays of this form.
LevelOf(i) == Min2(White, i * SampleStep)

SampleLevels == {LevelOf(i) : i \in 0..MaxSample}

\* the pixel at column x and row y of a buffer of width w (from 0)
At(buf, w, x, y) == buf[y * w + x + 1]

\* the value a Uint8ClampedArray holds after num / den is assigned to it:
\* the nearest integer, the even one of two that are equally near, within
\* 0..255
toUint8Clamped(num, den) ==
  LET twice == 2 * num + den
      down == twice \div (2 * den)
      near == IF twice % (2 * den) = 0 /\ down % 2 = 1 THEN down - 1 ELSE down
  IN Max2(0, Min2(White, near))

\* clamp(v) for v = num / den with den > 0: "v | 0" drops the fraction
clampByte(num, den) ==
  IF num < 0 THEN 0
  ELSE IF num > White * den THEN White
  ELSE num \div den

\* toGrayscale(data): y = (r * 0.299 + g * 0.587 + b * 0.114) | 0
toGrayscale(buf) ==
  [i \in DOMAIN buf |-> (buf[i] * 299 + buf[i] * 587 + buf[i] * 114) \div 1000]

\* k * (v + b - 128) + 128 with k = 259 * (c + 1) / (255 * (1 - c)), b = 0
\* and c = contrast.num / contrast.den, as a fraction
contrasted(v, contrast) ==
  LET den == 255 * (contrast.den - contrast.num)
  IN [num |-> 259 * (contrast.num + contrast.den) * (v - 128) + 128 * den,
      den |-> den]

\* applyBrightnessContrast(data, 0, contrast)
applyBrightnessContrast(buf, contrast) ==
  [i \in DOMAIN buf |->
     LET v == contrasted(buf[i], contrast) IN clampByte(v.num, v.den)]

\* boxBlur(img, radius): the horizontal pass into tmp, then the vertical
\* pass into the data of a new ImageData
boxBlur(buf, w, h, radius) ==
  LET div == 2 * radius + 1
      Sum3(a, b, c) == a + b + c
      RowSum(src, x, y) ==
        LET xx(k) == Max2(0, Min2(w - 1, x + k))
            S[k \in (-radius - 1)..radius] ==
              IF k < -radius THEN 0 ELSE S[k - 1] + At(src, w, xx(k), y)
        IN S[radius]
      tmp == [i \in DOMAIN buf |->
                toUint8Clamped(RowSum(buf, (i - 1) % w, (i - 1) \div w), div)]
      ColSum(src, x, y) ==
        LET yy(k) == Max2(0, Min2(h - 1, y + k))
            S[k \in (-radius - 1)..radius] ==
              IF k < -radius THEN 0 ELSE S[k - 1] + At(src, w, x, yy(k))
        IN S[radius]
  IN [tmp |-> tmp,
      out |-> [i \in DOMAIN buf |->
                 toUint8Clamped(ColSum(tmp, (i - 1) % w, (i - 1) \div w), div)]]

\* d + (d - s) * amt with amt = amount.num / amount.den, as a fraction
sharpened(d, s, amount) ==
  [num |-> d * amount.den + (d - s) * amount.num, den |-> amount.den]

\* the loop of applyUnsharp over d = img.data and s = blurred.data
applyUnsharp(d, s, amount) ==
  [i \in DOMAIN d |->
     LET v == sharpened(d[i], s[i], amount) IN clampByte(v.num, v.den)]

\* applyOtsu(img) on the buffer
binarize(buf) ==
  applyOtsu([i \in DOMAIN buf |-> [cluster |-> "dark", level |-> buf[i]]])

copyShared(h, id) == [heap |-> h, id |-> id]
\* new Uint8ClampedArray(src.data): a new buffer with the same content
copyOf(h, id) == [heap |-> Append(h, h[id]), id |-> Len(h) + 1]

\* the options decodeMultiFormat passes to enhanceForQR
PipelineOptions ==
  [grayscale |-> TRUE, contrast |-> [num |-> 1, den |-> 4],
   unsharp |-> [amount |-> [num |-> 3, den |-> 5], radius |-> 2], threshold |-> "otsu"]

\* the options of enhanceForQR(src)
DefaultOptions ==
  [grayscale |-> TRUE, contrast |-> [num |-> 1, den |-> 5],
   unsharp |-> [amount |-> [num |-> 1, den |-> 2], radius |-> 2], threshold |-> "none"]

\* enhanceForQR(src, o): the heap after the call and the ImageData returned.
\* The stages write to the buffer of out; boxBlur allocates tmp and the
\* buffer of its result.
enhanceForQR(h, src, o) ==
  LET c == copyOf(h, src.data)
      grey == IF o.grayscale THEN toGrayscale(c.heap[c.id]) ELSE c.heap[c.id]
      stretched == IF o.contrast.num # 0
                     THEN applyBrightnessContrast(grey, o.contrast) ELSE grey
      blurred == boxBlur(stretched, src.width, src.height, o.unsharp.radius)
      sharp == applyUnsharp(stretched, blurred.out, o.unsharp.amount)
      final == IF o.threshold = "otsu" THEN binarize(sharp) ELSE sharp
  IN [heap |-> [c.heap EXCEPT ![c.id] = final] \o <<blurred.tmp, blurred.out>>,
      out |-> [data |-> c.id, width |-> src.width, height |-> src.height]]

\* crop(src, x, y, w, h) on the heap: dest is a new buffer, every row of
\* the window is copied into it
cropInto(h, src, x, y, w, hh) ==
  Append(h, [i \in 1..(w * hh) |->
               At(h[src.data], src.width, x + ((i - 1) % w), y + ((i - 1) \div w))])

RECURSIVE scanFrom(_, _, _, _)
\* the loops of gridScanWithJsqr from the window at (x, y) on: the heap
\* after the crops
scanFrom(h, src, x, y) ==
  LET winW == windowOf(src.width)
      winH == windowOf(src.height)
  IN IF ~fits(y, winH, src.height) THEN h
     ELSE IF ~fits(x, winW, src.width) THEN scanFrom(h, src, 0, y + stepOf(winH))
     ELSE scanFrom(cropInto(h, src, x, y, winW, winH), src, x + stepOf(winW), y)

\* a grid too small for the finder patterns of a code, with any content:
\* jsQR reads nothing from it
SmallGrids ==
  UNION {[width: {w}, height: {hgt}, data: [1..(w * hgt) -> SampleLevels], code: {FALSE}] :
           w \in 1..MaxBufSide, hgt \in 1..MaxBufSide}

\* a grid of the smallest size that is tiled: a blank frame of one level,
\* from which jsQR reads nothing, or a frame of alternating levels that
\* stands for one with a code jsQR reads
TiledGrids ==
  {[width |-> MinWindow, height |-> MinWindow,
    data |-> [i \in 1..(MinWindow * MinWindow) |->
                IF code THEN LevelOf((i + seed) % (MaxSample + 1)) ELSE LevelOf(seed)],
    code |-> code] : seed \in 0..MaxSample, code \in BOOLEAN}

BufferIdle ==
  /\ heap = <<>>
  /\ given = Null
  /\ before = <<>>
  /\ readable = FALSE
  /\ entry = "none"
  /\ enhancedOut = Null
  /\ bufPc = "idle"

\* a caller holds an ImageData and calls decodeMultiFormat or enhanceForQR
BufferStart ==
  /\ \E g \in SmallGrids \cup TiledGrids :
       /\ heap = <<g.data>>
       /\ given = [data |-> 1, width |-> g.width, height |-> g.height]
       /\ before = g.data
       /\ readable = g.code
  /\ entry \in {"decodeMultiFormat", "enhanceForQR"}
  /\ enhancedOut = Null
  /\ bufPc = "called"

\* decodeMultiFormat up to its first await: the fast path, the enhanced
\* pass after a miss, the tiled re-scan
DecodeSync ==
  /\ bufPc = "called"
  /\ entry = "decodeMultiFormat"
  /\ LET e == IF readable THEN [heap |-> heap, out |-> Null]
              ELSE enhanceForQR(heap, given, PipelineOptions)
     IN /\ heap' = scanFrom(e.heap, given, 0, 0)
        /\ enhancedOut' = e.out
  /\ bufPc' = "awaiting"
  /\ UNCHANGED <<given, before, readable, entry>>
  /\ UNCHANGED <<frameVars, otsuVars, geometryVars, tileVars, fusionVars, decodeVars, hostVars,
                 hookVars>>

\* the awaited passes of decodeWithZxing settle and decodeMultiFormat
\* returns: the engine is handed imageData and writes to no buffer
ZxingSettle ==
  /\ bufPc = "awaiting"
  /\ bufPc' = "returned"
  /\ UNCHANGED <<heap, given, before, readable, entry, enhancedOut>>
  /\ UNCHANGED <<frameVars, otsuVars, geometryVars, tileVars, fusionVars, decodeVars, hostVars,
                 hookVars>>

\* enhanceForQR(src) called on its own
EnhanceForQR ==
  /\ bufPc = "called"
  /\ entry = "enhanceForQR"
  /\ LET e == enhanceForQR(heap, given, DefaultOptions)
     IN /\ heap' = e.heap
        /\ enhancedOut' = e.out
  /\ bufPc' = "returned"
  /\ UNCHANGED <<given, before, readable, entry>>
  /\ UNCHANGED <<frameVars, otsuVars, geometryVars, tileVars, fusionVars, decodeVars, hostVars,
                 hookVars>>

\* ------------------------------------------------------- live scanning
\* the locals of one run of the effect: lines 64 to 67
NewLoop == [raf |-> TRUE, lastTs |-> 0, busy |-> FALSE, cancelled |-> FALSE]

\* the cleanup of the effect: cancelled = true, cancelAnimationFrame(raf)
cleanup(ls) ==
  [l \in DOMAIN ls |-> [ls[l] EXCEPT !.cancelled = TRUE, !.raf = FALSE]]

\* "ts - lastTs < interval" with interval = 1000 / fps
tooEarly(ts, lastTs, fps) == (ts - lastTs) * fps < 1000

\* "busy" in the test of line 73
isBusy(loop) == loop.busy

neverCancelled(loop) == FALSE
\* "cancelled" in the tests of lines 99 and 106
isCancelled(loop) == loop.cancelled

HookIdle ==
  /\ isRunning = FALSE
  /\ mounted = FALSE
  /\ stopAsked = FALSE
  /\ loops = <<>>
  /\ flights = <<>>
  /\ updates = <<>>
  /\ now = 0

\* the component is mounted and has rendered once: isRunning is false, the
\* effect has returned at line 63
HookStart ==
  /\ isRunning = FALSE
  /\ mounted = TRUE
  /\ stopAsked = FALSE
  /\ loops = <<>>
  /\ flights = <<>>
  /\ updates = <<>>
  /\ now = 0

\* start() succeeds: setIsRunning(true), the render that follows runs the
\* effect, which requests the first animation frame
StartScan ==
  /\ mounted
  /\ ~isRunning
  /\ Len(loops) < MaxLoops
  /\ isRunning' = TRUE
  /\ loops' = Append(loops, NewLoop)
  /\ UNCHANGED <<mounted, stopAsked, flights, updates, now>>
  /\ UNCHANGED <<frameVars, otsuVars, geometryVars, tileVars, bufferVars, fusionVars,
                 decodeVars, hostVars>>

\* the animation frame a loop has requested: tick(ts)
Tick(l) ==
  /\ loops[l].raf
  /\ now + FrameMs <= MaxTime * FrameMs
  /\ Len(flights) < MaxFlights
  /\ now' = now + FrameMs
  /\ IF isCancelled(loops[l])
       THEN UNCHANGED <<loops, flights>>
     ELSE IF tooEarly(now', loops[l].lastTs, DefaultFps) \/ isBusy(loops[l])
       THEN UNCHANGED <<loops, flights>>
     ELSE /\ loops' = [loops EXCEPT ![l].lastTs = now', ![l].busy = TRUE]
          /\ flights' = Append(flights, [loop |-> l, state |-> "inflight", late |-> FALSE])
  /\ UNCHANGED <<isRunning, mounted, stopAsked, updates>>
  /\ UNCHANGED <<frameVars, otsuVars, geometryVars, tileVars, bufferVars, fusionVars,
                 decodeVars, hostVars>>

\* the awaited detection of a tick settles and the tick goes on from line
\* 99 (codes found or none) or from line 104 (an await threw)
TickResume(f, how) ==
  /\ flights[f].state = "inflight"
  /\ LET l == flights[f].loop
     IN /\ flights' = [flights EXCEPT ![f].state = how, ![f].late = loops[l].cancelled]
        /\ loops' = [loops EXCEPT ![l].busy = FALSE]
        /\ updates' =
             IF isCancelled(loops[l]) \/ how = "none" THEN updates
             ELSE Append(updates, [flight |-> f, how |-> how])
  /\ UNCHANGED <<isRunning, mounted, stopAsked, now>>
  /\ UNCHANGED <<frameVars, otsuVars, geometryVars, tileVars, bufferVars, fusionVars,
                 decodeVars, hostVars>>

\* a render with a changed dependency of the effect (fps, detector,
\* opts.roi, maxSide, grayscale, formats) while running: the cleanup of the
\* old run, then a new run of the effect
Restart ==
  /\ mounted
  /\ isRunning
  /\ ~stopAsked
  /\ Len(loops) < MaxLoops
  /\ loops' = Append(cleanup(loops), NewLoop)
  /\ UNCHANGED <<isRunning, mounted, stopAsked, flights, updates, now>>
  /\ UNCHANGED <<frameVars, otsuVars, geometryVars, tileVars, bufferVars, fusionVars,
                 decodeVars, hostVars>>

\* stop(): setIsRunning(false)
StopScan ==
  /\ mounted
  /\ isRunning
  /\ ~stopAsked
  /\ stopAsked' = TRUE
  /\ UNCHANGED <<isRunning, mounted, loops, flights, updates, now>>
  /\ UNCHANGED <<frameVars, otsuVars, geometryVars, tileVars, bufferVars, fusionVars,
                 decodeVars, hostVars>>

\* the render after stop(): the cleanup of the effect runs, the new run of
\* the effect returns at line 63
Rerender ==
  /\ mounted
  /\ stopAsked
  /\ stopAsked' = FALSE
  /\ isRunning' = FALSE
  /\ loops' = cleanup(loops)
  /\ UNCHANGED <<mounted, flights, updates, now>>
  /\ UNCHANGED <<frameVars, otsuVars, geometryVars, tileVars, bufferVars, fusionVars,
                 decodeVars, hostVars>>

\* the component is unmounted: the cleanup of the effect runs
Unmount ==
  /\ mounted
  /\ mounted' = FALSE
  /\ loops' = cleanup(loops)
  /\ UNCHANGED <<isRunning, stopAsked, flights, updates, now>>
  /\ UNCHANGED <<frameVars, otsuVars, geometryVars, tileVars, bufferVars, fusionVars,
                 decodeVars, hostVars>>

\* ------------------------------------------------------------------ idle
OtsuIdle ==
  /\ image = <<>>
  /\ binary = <<>>

GeometryIdle ==
  /\ position = Null
  /\ barcode = Null

PureIdle ==
  FrameIdle /\ OtsuIdle /\ GeometryIdle /\ TileIdle /\ BufferIdle /\ HookIdle

\* ---------------------------------------------------------- specifications
FusionInit == FusionStart /\ DecodeIdle /\ HostIdle /\ PureIdle

FusionNext == Fuse \/ FuseAgain

FusionSpec == FusionInit /\ [][FusionNext]_vars

PairInit == PairStart /\ DecodeIdle /\ HostIdle /\ PureIdle

PairNext == Fuse \/ Score

PairSpec == PairInit /\ [][PairNext]_vars

DecodeInit == DecodeStart /\ FusionIdle /\ HostIdle /\ PureIdle

DecodeNext ==
  FullFrame \/ Enhanced \/ GridScan(MaxTileHits) \/ ZxingQR \/ ZxingOther \/ ZxingOnly

DecodeSpec == DecodeInit /\ [][DecodeNext]_vars

\* the same calls with smaller inputs, for what holds of every run
StageInit == StageStart /\ FusionIdle /\ HostIdle /\ PureIdle

StageNext ==
  FullFrame \/ Enhanced \/ GridScan(StageTileHits) \/ ZxingQR \/ ZxingOther \/ ZxingOnly

StageSpec == StageInit /\ [][StageNext]_vars

Init == HostStart /\ FusionIdle /\ DecodeIdle /\ PureIdle

\* the steps of the event loops: the main thread resumes a detect() or
\* receives a response; a worker takes up a message or resumes a handler
Step ==
  \/ \E c \in CallIds : Dispatch(c)
  \/ \E w \in WorkerIds : Deliver(w)
  \/ \E w \in WorkerIds : WorkerReceive(w)
  \/ \E w \in WorkerIds : WorkerFinish(w)

Next ==
  \/ Construct(Limits)
  \/ \E size \in 1..MaxPoolArg : InitWorkerPool(size, Limits)
  \/ \E d \in 1..MaxDetectors : Detect(d, Limits)
  \/ Step

Spec == Init /\ [][Next]_vars

\* the same program where, in addition, a decode may never return
LiveNext ==
  \/ Construct(LiveLimits)
  \/ \E size \in 1..MaxPoolArg : InitWorkerPool(size, LiveLimits)
  \/ \E d \in 1..LiveDetectors : Detect(d, LiveLimits)
  \/ Step
  \/ \E w \in WorkerIds : WorkerHang(w)

\* the event loops of the main thread and of every worker keep running:
\* a continuation, a queued message or a posted response is eventually
\* handled
Fairness ==
  /\ \A c \in 1..LiveCalls : WF_vars(Dispatch(c))
  /\ \A w \in WorkerIds : WF_vars(Deliver(w))
  /\ \A w \in WorkerIds : WF_vars(WorkerReceive(w))
  /\ \A w \in WorkerIds : WF_vars(WorkerFinish(w))

FairSpec == Init /\ [][LiveNext]_vars /\ Fairness

\* the same program within ReadyLimits
ReadyNext ==
  \/ Construct(ReadyLimits)
  \/ \E size \in 1..MaxPoolArg : InitWorkerPool(size, ReadyLimits)
  \/ \E d \in 1..ReadyDetectors : Detect(d, ReadyLimits)
  \/ Step

ReadySpec == Init /\ [][ReadyNext]_vars

PoolInit == HostStartWith(PoolWorkerIds) /\ FusionIdle /\ DecodeIdle /\ PureIdle

\* the same program called with sizes up to MaxPoolSize
PoolNext ==
  \/ Construct(PoolLimits)
  \/ \E size \in 1..MaxPoolSize : InitWorkerPool(size, PoolLimits)
  \/ \E d \in 1..PoolDetectors : Detect(d, PoolLimits)
  \/ \E c \in 1..PoolCalls : Dispatch(c)
  \/ \E w \in PoolWorkerIds : Deliver(w)
  \/ \E w \in PoolWorkerIds : WorkerReceive(w)
  \/ \E w \in PoolWorkerIds : WorkerFinish(w)

PoolSpec == PoolInit /\ [][PoolNext]_vars

FrameInit ==
  FrameStart /\ OtsuIdle /\ GeometryIdle /\ FusionIdle /\ DecodeIdle /\ HostIdle /\ TileIdle
    /\ BufferIdle
    /\ HookIdle

FrameNext == ToImageData \/ Rescale

FrameSpec == FrameInit /\ [][FrameNext]_vars

CropInit ==
  CropStart /\ OtsuIdle /\ GeometryIdle /\ FusionIdle /\ DecodeIdle /\ HostIdle /\ TileIdle
    /\ BufferIdle
    /\ HookIdle

CropNext == Crop

CropSpec == CropInit /\ [][CropNext]_vars

GeometryInit ==
  GeometryStart /\ FrameIdle /\ OtsuIdle /\ FusionIdle /\ DecodeIdle /\ HostIdle /\ TileIdle
    /\ BufferIdle
    /\ HookIdle

GeometryNext == TryJsqr \/ DecodeWithZxing

GeometrySpec == GeometryInit /\ [][GeometryNext]_vars

OtsuInit ==
  OtsuStart /\ FrameIdle /\ GeometryIdle /\ FusionIdle /\ DecodeIdle /\ HostIdle /\ TileIdle
    /\ BufferIdle
    /\ HookIdle

OtsuNext == ApplyOtsu

OtsuSpec == OtsuInit /\ [][OtsuNext]_vars

MappingInit == MappingStart /\ FusionIdle /\ HostIdle /\ PureIdle

MappingNext == ReadBarcodes \/ Collect

MappingSpec == MappingInit /\ [][MappingNext]_vars

IntakeInit ==
  /\ IntakeStart
  /\ formats = {}
  /\ scene = <<>>
  /\ dpc = "idle"
  /\ results = <<>>
  /\ dedupedQR = <<>>
  /\ zxThrew = FALSE
  /\ stages = <<>>
  /\ gridOut = <<>>
  /\ OtsuIdle
  /\ GeometryIdle
  /\ TileIdle
  /\ BufferIdle
  /\ HookIdle
  /\ FusionIdle
  /\ HostIdle

IntakeNext == Acquire \/ Settle

IntakeSpec == IntakeInit /\ [][IntakeNext]_vars

TileInit ==
  /\ TileStart
  /\ BufferIdle
  /\ HookIdle
  /\ FrameIdle
  /\ OtsuIdle
  /\ GeometryIdle
  /\ FusionIdle
  /\ DecodeIdle
  /\ HostIdle

TileNext == ScanWindow \/ NextRow \/ ScanReturn

TileSpec == TileInit /\ [][TileNext]_vars

BufferInit ==
  /\ BufferStart
  /\ HookIdle
  /\ FrameIdle
  /\ OtsuIdle
  /\ GeometryIdle
  /\ TileIdle
  /\ FusionIdle
  /\ DecodeIdle
  /\ HostIdle

BufferNext == DecodeSync \/ ZxingSettle \/ EnhanceForQR

BufferSpec == BufferInit /\ [][BufferNext]_vars

HookInit ==
  /\ HookStart
  /\ FrameIdle
  /\ OtsuIdle
  /\ GeometryIdle
  /\ TileIdle
  /\ BufferIdle
  /\ FusionIdle
  /\ DecodeIdle
  /\ HostIdle

HookNext ==
  \/ StartScan
  \/ \E l \in DOMAIN loops : Tick(l)
  \/ \E f \in DOMAIN flights, how \in {"codes", "none", "threw"} : TickResume(f, how)
  \/ Restart
  \/ StopScan
  \/ Rerender
  \/ Unmount

HookSpec == HookInit /\ [][HookNext]_vars


\* ------------------------------------------------------ fusion: properties
BoxOf(i) == items[i].boundingBox

\* o contains i and differs from it
StrictlyContains(o, i) ==
  /\ o.x <= i.x
  /\ o.y <= i.y
  /\ i.x + i.width <= o.x + o.width
  /\ i.y + i.height <= o.y + o.height
  /\ o # i

Contains(o, i) ==
  /\ o.x <= i.x
  /\ o.y <= i.y
  /\ i.x + i.width <= o.x + o.width
  /\ i.y + i.height <= o.y + o.height

\* the two boxes share no area
Disjoint(a, b) ==
  \/ a.x + a.width <= b.x
  \/ b.x + b.width <= a.x
  \/ a.y + a.height <= b.y
  \/ b.y + b.height <= a.y

\* same rawValue and IoU above the threshold, stated on the data alone
DuplicatePair(a, b) ==
  /\ a.rawValue = b.rawValue
  /\ ExceedsThreshold(iou(a.boundingBox, b.boundingBox))

\* C1: dedupe(dedupe(X)) = dedupe(X) for every list X: running Result
\* Fusion on its own output returns the same entries in the same order.
C1_FusionIdempotent == fpc = "refused" => refused = fused

\* C2: the output of dedupe(X) holds no two distinct entries with the same
\* rawValue and a bounding-box IoU above 0.3.
C2_NoDuplicatesInOutput ==
  fpc \in {"fused", "refused"} =>
    \A i, j \in 1..Len(fused) : i # j => ~DuplicatePair(fused[i], fused[j])

\* C3: for two detections with the same rawValue, IoU > 0.3 and one box
\* strictly containing the other, dedupe of the two-element list returns
\* exactly the detection with the larger box, whichever comes first.
C3_LargerBoxWins ==
  (fpc = "fused" /\ Len(items) = 2) =>
    ((/\ DuplicatePair(items[1], items[2])
      /\ (StrictlyContains(BoxOf(1), BoxOf(2)) \/ StrictlyContains(BoxOf(2), BoxOf(1))))
      => fused = <<IF StrictlyContains(BoxOf(1), BoxOf(2)) THEN items[1] ELSE items[2]>>)

\* the smaller box came first and the incoming larger one took its place
C3_Witness ==
  /\ fpc = "fused"
  /\ Len(items) = 2
  /\ DuplicatePair(items[1], items[2])
  /\ StrictlyContains(BoxOf(2), BoxOf(1))
  /\ fused = <<items[2]>>

\* C4 as stated: for every pair of boxes with non-negative width and height,
\* iou is 1 for identical boxes, 0 for disjoint boxes, and 0.5 when one box
\* contains the other and the inner box has half the outer box's area.
C4_IoUAsStated ==
  fpc = "scored" =>
    /\ (BoxOf(1) = BoxOf(2) => FractionIs(score, 1, 1))
    /\ (Disjoint(BoxOf(1), BoxOf(2)) => FractionIs(score, 0, 1))
    /\ \A o, i \in {1, 2} :
         (Contains(BoxOf(o), BoxOf(i)) /\ 2 * Area(BoxOf(i)) = Area(BoxOf(o)))
           => FractionIs(score, 1, 2)

\* C4 as amended: for boxes of positive area, iou is 1 for identical boxes
\* and 0.5 when one contains the other and the inner has half the outer's
\* area; iou is 0 for disjoint boxes, and also 0 for two identical boxes of
\* zero area (the all-zero box of a hit without geometry).
C4_IoUPositiveArea ==
  fpc = "scored" =>
    /\ ((BoxOf(1) = BoxOf(2) /\ Area(BoxOf(1)) > 0) => FractionIs(score, 1, 1))
    /\ ((BoxOf(1) = BoxOf(2) /\ Area(BoxOf(1)) = 0) => FractionIs(score, 0, 1))
    /\ (Disjoint(BoxOf(1), BoxOf(2)) => FractionIs(score, 0, 1))
    /\ \A o, i \in {1, 2} :
         (/\ Contains(BoxOf(o), BoxOf(i))
          /\ Area(BoxOf(o)) > 0
          /\ 2 * Area(BoxOf(i)) = Area(BoxOf(o)))
           => FractionIs(score, 1, 2)

\* iou has been evaluated on an outer box and an inner box of half its area
C4_Witness ==
  /\ fpc = "scored"
  /\ Contains(BoxOf(1), BoxOf(2))
  /\ Area(BoxOf(1)) > 0
  /\ 2 * Area(BoxOf(2)) = Area(BoxOf(1))
  /\ FractionIs(score, 1, 2)

\* ------------------------------------------- decodeMultiFormat: properties
\* the detection decodeWithZxing builds from an engine hit is in the list
Reported(h, list) ==
  \E j \in 1..Len(list) :
    /\ list[j].rawValue = h.text
    /\ list[j].format = mapFromZxingFormat(h.format)

\* C5: with an empty requested format set the multi-symbology detector is
\* not restricted to qr_code: every symbol of one of the ten symbologies
\* that the engine reads in the image appears in the result.
C5_EmptyMeansAllSupported ==
  (dpc = "done" /\ formats = {} /\ outcome = "resolved" /\ ~zxThrew) =>
    \A i \in 1..Len(scene) :
      (scene[i].text # "" /\ mapFromZxingFormat(scene[i].format) \in SymbologySet)
        => Reported(scene[i], returned)

\* C6: for every requested format set, when the multi-symbology detector
\* fails to load or throws, decodeMultiFormat still resolves and never
\* rejects.
C6_EngineFailureNeverRejects ==
  (dpc = "done" /\ zxThrew) => outcome = "resolved"

\* ---------------------------------------------- execution host: properties
\* C7: every request sent to a worker settles at most once, only on the
\* response that answers it, and as soon as that response is delivered;
\* responses that answer other requests leave it pending.
C7_SettlesOnOwnResponseOnly ==
  \A p \in 1..Len(asks) :
    LET a == asks[p]
    IN /\ Len(a.settledBy) <= 1
       /\ \A i \in 1..Len(a.settledBy) : a.settledBy[i] = p
       /\ (a.state # "pending") <=> (Len(a.settledBy) = 1)
       /\ a.delivered => a.state # "pending"
       /\ a.listening <=> (a.state = "pending")

\* two detect requests were in flight on one worker and the later one was
\* answered first: the earlier one is still pending and listening
C7_Witness ==
  \E q, p \in 1..Len(asks) :
    /\ q < p
    /\ asks[q].w = asks[p].w
    /\ asks[q].type = "detect"
    /\ asks[p].type = "detect"
    /\ asks[p].state # "pending"
    /\ asks[q].state = "pending"
    /\ asks[q].listening

\* C8 as stated: a worker never has two detect requests in progress at once.
C8_OneDetectAtATime ==
  \A w \in WorkerIds : Cardinality(inProgress[w]) <= 1

\* C8 as amended: a worker answers every message at most once and each of
\* its in-progress requests is an unanswered detect request sent to it; it
\* can have several of them in progress at once.
C8_InProgressAreUnanswered ==
  /\ \A p \in 1..Len(asks) : asks[p].answers <= 1
  /\ \A w \in WorkerIds : \A m \in inProgress[w] :
       /\ m.type = "detect"
       /\ asks[m.for].w = w
       /\ asks[m.for].answers = 0
       /\ asks[m.for].state = "pending"

\* a worker has taken up a second detect while the first awaits its decode
C8_Witness ==
  \E w \in WorkerIds : Cardinality(inProgress[w]) = 2

\* C9: dispatches rotate: over calls made while the pool has n workers,
\* any n consecutive calls go to n distinct workers and calls k and k+n go
\* to the same worker; the rotation index is a valid pool index at every
\* dispatch, also after the pool has grown.
C9_StrictRotation ==
  /\ (pool # <<>>) => rr \in 0..(Len(pool) - 1)
  /\ \A i \in 1..Len(dispatchLog) : dispatchLog[i].index \in 0..(dispatchLog[i].n - 1)
  /\ \A i, j \in 1..Len(dispatchLog) :
       (i < j /\ \A k \in i..j : dispatchLog[k].n = dispatchLog[i].n) =>
         /\ (j - i < dispatchLog[i].n) => dispatchLog[i].index # dispatchLog[j].index
         /\ (j - i = dispatchLog[i].n) => dispatchLog[i].index = dispatchLog[j].index

\* three dispatches on a pool of two: the third returns to the first worker
C9_Witness ==
  /\ Len(dispatchLog) >= 3
  /\ \A k \in 1..3 : dispatchLog[k].n = 2
  /\ dispatchLog[1].index # dispatchLog[2].index
  /\ dispatchLog[1].index = dispatchLog[3].index

CallSettled(c) ==
  \/ calls[c].pc \in {"resolved", "rejected"}
  \/ calls[c].ask # 0 /\ asks[calls[c].ask].state # "pending"

\* the rotation gave call c to a worker that hung
CallOnHungWorker(c) == calls[c].ask # 0 /\ hung[asks[calls[c].ask].w]

\* no worker of the pool is left to respond
AllHung == pool # <<>> /\ \A i \in 1..Len(pool) : hung[pool[i]]

\* C10: a hung detection blocks only its own pool slot: while some worker
\* of the pool still responds, every detect call, also one on a detector
\* constructed after a worker hung, is eventually resolved or rejected
\* unless the rotation gave it to the hung worker.
C10_HungBlocksOnlyItsSlot ==
  \A c \in 1..LiveCalls :
    (c <= Len(calls)) ~>
      (c <= Len(calls) /\ (CallSettled(c) \/ CallOnHungWorker(c) \/ AllHung))

\* C11: without a window, detectInWorker returns an empty list at once and
\* posts no detect message to any worker, whether or not Worker exists.
C11_NoWindowNoWorkerTraffic ==
  ~hasWindow =>
    /\ \A c \in 1..Len(calls) : calls[c].via \in {"none", "empty"}
    /\ \A p \in 1..Len(asks) : asks[p].type # "detect"

\* ------------------------------------------ decodeMultiFormat: pass order
\* the position of a pass in the order the pipeline is described with
StatedRank(pass) ==
  CASE pass = "full" -> 1
    [] pass = "enhanced" -> 2
    [] pass = "grid" -> 3
    [] pass \in {"zxingQR", "zxingOther", "zxingOnly"} -> 4
    [] pass = "fusion" -> 5

AfterQR == IF otherFormats = {} THEN "end" ELSE "zxingOther"

\* the pass that the code runs after entry i of the log
Follows(i) ==
  LET e == stages[i]
  IN CASE e.pass = "full" -> IF e.hits = 0 THEN "enhanced" ELSE "grid"
       [] e.pass = "enhanced" -> "grid"
       [] e.pass = "grid" -> "fusion"
       [] e.pass = "zxingQR" -> IF ~e.threw /\ e.hits > 0 THEN "fusion" ELSE AfterQR
       [] e.pass = "zxingOther" -> IF e.threw THEN "end" ELSE "fusion"
       [] e.pass = "fusion" ->
            IF stages[i - 1].pass = "grid" THEN "zxingQR"
            ELSE IF stages[i - 1].pass = "zxingQR" THEN AfterQR
            ELSE "end"
       [] OTHER -> "end"

\* detections contributed by the full-frame and the enhanced attempt
FastPathHits ==
  {i \in 1..Len(stages) : stages[i].pass \in {"full", "enhanced"} /\ stages[i].hits > 0}

C13_ReturnedListIsFused ==
  (dpc = "done" /\ outcome = "resolved") =>
    \A i, j \in 1..Len(returned) : i # j => ~DuplicatePair(returned[i], returned[j])

\* the detection the full-frame or the enhanced attempt contributed
FastPathDetections == IF FastPathHits = {} THEN {} ELSE {results[1]}

\* C14: a hit of the tiled re-scan is missing from the final result only
\* when another detection (of the fast path, of another tile or of the
\* multi-symbology detector) has the same rawValue and a box overlapping
\* it with IoU > 0.3; a tile hit with the rawValue of the full-frame hit at
\* a non-overlapping position is kept.
C14_TileHitRemovedOnlyByFusion ==
  (dpc = "done" /\ outcome = "resolved" /\ wantQR) =>
    \A i \in 1..Len(gridOut) :
      \/ \E j \in 1..Len(returned) : returned[j] = gridOut[i]
      \/ \E d \in FastPathDetections \cup {gridOut[k] : k \in (1..Len(gridOut)) \ {i}}
                    \cup SeqToSet(decodeWithZxing(scene, {})) :
           DuplicatePair(d, gridOut[i])

\* ------------------------------------------------------ frame normalizer
\* a = b for two fractions with positive denominators
SameFraction(a, b) == a.num * b.den = b.num * a.den

\* C15: every point returned to the caller is expressed in the coordinates of
\* the original input: dividing a detection made on the working grid by scale
\* gives its position in the original, also when the grid was cropped to a
\* region of interest whose origin is not (0,0).
C15_ReportedInOriginalCoordinates ==
  (located # Null /\ grid.scale.num > 0) =>
    /\ SameFraction(located.x, located.originalX)
    /\ SameFraction(located.y, located.originalY)

\* C16: when a region of interest is supplied to toImageData, the returned
\* grid is the downscaled frame cropped to the clamped region, for every kind
\* of input that is rasterized (video, image, canvas, ImageBitmap, Blob).
C16_GridIsClampedRoi ==
  (grid # Null /\ opts.roi # Null /\ source.kind # "imageData") =>
    LET frame == [width |-> grid.frameWidth, height |-> grid.frameHeight]
        clamped == cropImageData(frame, opts.roi)
    IN /\ grid.width = clamped.width
       /\ grid.height = clamped.height

\* C18: for every source size and every maxSide the normalizer is called
\* with, the scale it reports is min(1, maxSide / max(width, height)) and
\* 0 < scale <= 1, so that the rescaler never divides by zero.
C18_ScaleInUnitInterval ==
  grid # Null =>
    LET m == Max2(source.width, source.height)
        s == grid.scale
        stated == [num |-> maxSideOf(opts), den |-> m]
    IN /\ s.num <= s.den
       /\ s.num * stated.den <= stated.num * s.den
       /\ s.num = s.den \/ SameFraction(s, stated)
       /\ 0 < s.num

\* C17: for every grid of at least 1x1 pixels and every region of interest
\* with finite numbers (absolute or normalized; negative, of size zero or out
\* of range), cropImageData does not throw and crops a rectangle inside the
\* grid: x >= 0, y >= 0, width >= 1, height >= 1, x + width <= grid width,
\* y + height <= grid height; the buffer returned has width * height * 4 bytes.
C17_CropInsideGrid ==
  grid # Null =>
    /\ ~grid.threw
    /\ grid.x >= 0
    /\ grid.y >= 0
    /\ grid.width >= 1
    /\ grid.height >= 1
    /\ grid.x + grid.width <= source.width
    /\ grid.y + grid.height <= source.height
    /\ grid.length = grid.width * grid.height * 4

\* a crop has returned for a region that starts left of the grid, is wider
\* than the grid and has no height
C17_Witness ==
  /\ grid # Null
  /\ opts.roi.x < 0
  /\ floorHalves(opts.roi.width) > source.width
  /\ opts.roi.height = 0
  /\ ~opts.roi.normalized
  /\ source.width > 1
  /\ grid.width = source.width
  /\ grid.height = 1

\* ---------------------------------------------------------- corner points
\* C19: every DetectedBarcode returned by the pipeline has exactly four
\* corner points, whichever pass produced it and whatever shape of position
\* the engine reported.
C19_FourCornerPoints == barcode # Null => Len(barcode.cornerPoints) = 4

\* --------------------------------------------------------- Otsu threshold
\* C20: applying the Otsu threshold to a two-level image (a dark and a bright
\* cluster, each spread by noise smaller than the gap between them, the
\* noise-free image of exactly two levels included) maps every pixel of the
\* dark cluster to 0 and every pixel of the bright cluster to 255.
C20_OtsuReproducesTwoLevels ==
  binary # <<>> =>
    \A i \in 1..Len(image) :
      binary[i] = IF image[i].cluster = "dark" THEN 0 ELSE White

\* --------------------------------------------------------- format mapping
\* C22: the mapping between the symbologies and the engine's format names is
\* a two-way table over the ten symbologies: mapping a symbology to its
\* engine name and back gives the symbology, distinct symbologies have
\* distinct engine names, and 'QRCode' maps to qr_code.
C22_MappingIsTwoWay ==
  /\ \A f \in SymbologySet : mapFromZxingFormat(mapToZxingFormat(f)) = f
  /\ \A f, g \in SymbologySet : mapToZxingFormat(f) = mapToZxingFormat(g) => f = g
  /\ mapFromZxingFormat("QRCode") = "qr_code"
  /\ dpc = "collected" =>
       /\ Len(results) = Cardinality(formats)
       /\ {results[i].format : i \in 1..Len(results)} = formats

\* two symbologies other than qr_code were requested, read and reported
C22_Witness ==
  /\ dpc = "collected"
  /\ formats = {"ean_13", "data_matrix"}
  /\ Len(results) = 2
  /\ results[1].format = "ean_13"
  /\ results[2].format = "data_matrix"

\* ------------------------------------------------------- size of the pool
\* C23: the worker pool never holds more than 4 workers, after any sequence
\* of initWorkerPool calls (with or without an explicit size), detector
\* constructions and detect calls.
C23_PoolWithinCap == Len(pool) <= PoolCap

\* ------------------------------------------------------ init before detect
\* C30: every detect message reaches a worker that has already processed an
\* init message: whenever a worker takes a detect message from its queue it
\* is ready, so that no call is rejected with 'not ready'.
C30_DetectFindsWorkerReady ==
  [][\A w \in DOMAIN inbox :
       (/\ inbox[w] # <<>>
        /\ Head(inbox[w]).type = "detect"
        /\ inbox'[w] = Tail(inbox[w])) => workerReady[w]]_vars

\* the pool grew from one worker to two after the detector was ready, the
\* call went to the new worker and its request was answered with a result
C30_Witness ==
  /\ hw = 1
  /\ Len(pool) = 2
  /\ \E c \in 1..Len(calls) :
       /\ calls[c].via = "worker"
       /\ asks[calls[c].ask].w = 2
       /\ asks[calls[c].ask].state = "resolved"

\* ------------------------------------------------------- detect(): intake
\* C21: a source that cannot be converted to a pixel grid (a blob that is
\* not a valid image, an element whose measured size is 0x0) makes detect()
\* reject: the call never resolves, with an empty array or otherwise.
C21_UnconvertibleSourceRejects ==
  (source # Null /\ Unconvertible(source)) => outcome # "resolved"

\* ----------------------------------------------------------- tiled re-scan
\* f = Math.floor(num / den) for den > 0
IsFloor(f, num, den) == f * den <= num /\ num < (f + 1) * den

\* win is max(32, floor(dim * 0.6))
StatedWindow(win, dim) ==
  IF IsFloor(win, dim * WindowRatioNum, WindowRatioDen)
    THEN win >= MinWindow
    ELSE win = MinWindow /\ dim * WindowRatioNum < MinWindow * WindowRatioDen

\* stride is max(16, floor(win * 0.5))
StatedStep(stride, win) ==
  IF IsFloor(stride, win, OverlapDen)
    THEN stride >= MinStep
    ELSE stride = MinStep /\ win < MinStep * OverlapDen

\* at is a multiple of the stride that goes with the window win
OnStride(at, win) == \E stride \in MinStep..Max2(MinStep, win) :
  StatedStep(stride, win) /\ at % stride = 0

\* C24: for every grid of at least 1x1 pixels and the default parameters,
\* gridScanWithJsqr terminates and every window it scans lies inside the
\* grid: the window is max(32, floor(dim * 0.6)) wide, the stride is
\* max(16, floor(window * 0.5)), origins are multiples of the stride with
\* origin + window <= dim, crop reads nothing outside the source buffer, and
\* no window is scanned when a side is smaller than its window.
C24_WindowsInsideGrid ==
  scanSrc # Null =>
    \A i \in 1..Len(tiles) :
      LET t == tiles[i]
      IN /\ StatedWindow(t.width, scanSrc.width)
         /\ StatedWindow(t.height, scanSrc.height)
         /\ OnStride(t.x, t.width)
         /\ OnStride(t.y, t.height)
         /\ \A j \in 1..(i - 1) :
              tiles[j].y < t.y \/ (tiles[j].y = t.y /\ tiles[j].x < t.x)
         /\ t.x >= 0
         /\ t.y >= 0
         /\ t.x + t.width <= scanSrc.width
         /\ t.y + t.height <= scanSrc.height
         /\ t.complete
         /\ ~t.threw
         /\ t.length = t.width * t.height * 4

\* the scan of a 48x33 grid has returned: two windows of 32x32 side by side
C24_Witness ==
  /\ scanSrc # Null
  /\ scanSrc.width = 48
  /\ scanSrc.height = 33
  /\ scanAt = Null
  /\ Len(tiles) = 2
  /\ tiles[2].x = 16
  /\ tiles[2].y = 0
  /\ tiles[2].width = 32

\* C25: the windows scanned by the tiled re-scan together cover the whole
\* grid: for every grid of at least 32x32 pixels each pixel, those along the
\* right and bottom edges included, lies in at least one scanned window.
C25_WindowsCoverGrid ==
  (scanSrc # Null /\ scanAt = Null
     /\ scanSrc.width >= MinWindow /\ scanSrc.height >= MinWindow) =>
    \A px \in 0..(scanSrc.width - 1), py \in 0..(scanSrc.height - 1) :
      \E i \in 1..Len(tiles) :
        /\ tiles[i].x <= px
        /\ px < tiles[i].x + tiles[i].width
        /\ tiles[i].y <= py
        /\ py < tiles[i].y + tiles[i].height

\* ------------------------------------------------------------ pixel buffers
\* C26: the detection pipeline never changes the pixel grid it is given:
\* at every point of decodeMultiFormat (fast path, enhancement, tiled
\* re-scan) and of enhanceForQR the caller's buffer holds the bytes it held
\* at the call, and the grid enhanceForQR returns has the width and the
\* height of its input and a buffer of its own.
C26_CallerBufferUntouched ==
  given # Null =>
    /\ heap[given.data] = before
    /\ enhancedOut # Null =>
         /\ enhancedOut.width = given.width
         /\ enhancedOut.height = given.height
         /\ enhancedOut.data # given.data
         /\ Len(heap[enhancedOut.data]) = given.width * given.height

\* decodeMultiFormat has returned for a blank 32x32 frame: the enhanced
\* copy differs from the frame, and the copy, the two buffers of boxBlur and
\* the one window of the re-scan were allocated
C26_Witness ==
  /\ bufPc = "returned"
  /\ entry = "decodeMultiFormat"
  /\ given.width = MinWindow
  /\ enhancedOut # Null
  /\ heap[enhancedOut.data] # before
  /\ Len(heap) = 5
  /\ heap[5] = before

\* the integer nearest to num / den, within 0..255
clampNearest(num, den) == Max2(0, Min2(White, (2 * num + den) \div (2 * den)))

\* the options of the call of enhanceForQR that was made
optionsOf(e) == IF e = "decodeMultiFormat" THEN PipelineOptions ELSE DefaultOptions

\* C27: the brightness/contrast stage and the unsharp stage store each
\* computed channel value clamped to 0..255 and rounded to the nearest
\* integer.
C27_StagesRoundToNearest ==
  enhancedOut # Null =>
    LET o == optionsOf(entry)
        grey == toGrayscale(before)
        stretched == applyBrightnessContrast(grey, o.contrast)
        blurred == boxBlur(stretched, given.width, given.height, o.unsharp.radius).out
        sharp == applyUnsharp(stretched, blurred, o.unsharp.amount)
    IN \A i \in DOMAIN before :
         /\ LET v == contrasted(grey[i], o.contrast)
            IN stretched[i] = clampNearest(v.num, v.den)
         /\ LET v == sharpened(stretched[i], blurred[i], o.unsharp.amount)
            IN sharp[i] = clampNearest(v.num, v.den)

\* ------------------------------------------------------------ live scanning
\* the detections of the instance that have not settled
InFlight == {f \in DOMAIN flights : flights[f].state = "inflight"}

\* C28: a useBarcodeScan instance never has two detections in flight at
\* once.
C28_OneDetectionInFlight == Cardinality(InFlight) <= 1

====
